---- MODULE Spec2Model ----
(***************************************************************************)
(* Decision core of the dental-restoration order-intake server:            *)
(*   tooth_validator.py      FDI tooth numbers, continuity                 *)
(*   rules.py                bridge validation, material compatibility     *)
(*   material_normalizer.py  material-name normalisation                   *)
(*   tools.py                tool dispatch, patient-name storage           *)
(*   main.py                 the chat handler and the session's order data *)
(*                                                                         *)
(* A Python str is a sequence of one-character strings, so that strip,     *)
(* split, lower, replace and int are computed rather than assumed.         *)
(* Characters outside ASCII are written as one placeholder character       *)
(* such as "U+5168".                                                       *)
(***************************************************************************)
EXTENDS Integers, Sequences, FiniteSets, TLC

VARIABLES
    tool_name,      \* the function being called
    arguments,      \* its arguments (a record, as the params / kwargs dict)
    tool_result,    \* what it returned; None before the call returns
    pc,             \* "call" before the function ran, "done" after; in a
                    \* session, the step of the chat handler last taken
    order_data,     \* conversations[session_id]['order_data']
    order_before,   \* order_data as the step last taken found it
    user_msg,       \* the chat message the step last taken read, or None
    reply,          \* the ChatResponse the step last taken returned, or None
    normalization_cache,  \* _normalization_cache of material_normalizer.py
    response,       \* what client.chat.completions.create answered the call
                    \* last made, or None when it was not called
    tool_calls,     \* message.tool_calls of the turn, in the order they arrived
    tool_calls_log  \* tool_calls_log of the turn: the calls executed so far

vars == <<tool_name, arguments, tool_result, pc, order_data, order_before, user_msg,
          reply, normalization_cache, response, tool_calls, tool_calls_log>>

None == "None"

\* the empty dict
EmptyDict == [k \in {} |-> None]

\* _normalization_cache = {}
EmptyCache == [k \in {} |-> <<>>]

\* the normalizer's cache, what the external classifier answered and the
\* tool calls of a turn, which only the normalizer and the tool loop touch
other_vars == <<normalization_cache, response, tool_calls, tool_calls_log>>

NoOther ==
    /\ normalization_cache = EmptyCache
    /\ response = None
    /\ tool_calls = <<>>
    /\ tool_calls_log = <<>>

\* the variables of a session, which a bare function call does not touch
session_vars == <<order_data, order_before, user_msg, reply, other_vars>>

NoSession ==
    /\ order_data = EmptyDict
    /\ order_before = EmptyDict
    /\ user_msg = None
    /\ reply = None
    /\ NoOther

(***************************************************************************)
(* Bounds of the model.                                                    *)
(***************************************************************************)
\* validate_single_tooth is called on every n in -NegToothNumbers..MaxToothNumber
NegToothNumbers == 3
MaxToothNumber == 60
\* validate_tooth_position is called on up to MaxToothFields joined fields
MaxToothFields == 3
\* validate_bridge is called on up to MaxBridgeNumerals joined numerals ...
MaxBridgeNumerals == 5
\* ... and on up to MaxBridgeFields joined fields that need not be numerals
MaxBridgeFields == 3
\* validate_material is called with bridge_span in 1..MaxBridgeSpan, or without
MaxBridgeSpan == 4

(***************************************************************************)
(* Python str and list primitives.                                         *)
(***************************************************************************)
Range(seq) == {seq[i] : i \in 1..Len(seq)}

Whitespace == {" "}

Digits == <<"0", "1", "2", "3", "4", "5", "6", "7", "8", "9">>

IsDigit(c) == \E i \in 1..10 : Digits[i] = c

DigitValue(c) == (CHOOSE i \in 1..10 : Digits[i] = c) - 1

\* str.strip(): leading and trailing whitespace removed
RECURSIVE LStrip(_)
LStrip(s) ==
    IF s # <<>> /\ Head(s) \in Whitespace THEN LStrip(Tail(s)) ELSE s

RECURSIVE RStrip(_)
RStrip(s) ==
    IF s # <<>> /\ s[Len(s)] \in Whitespace
    THEN RStrip(SubSeq(s, 1, Len(s) - 1))
    ELSE s

Strip(s) == RStrip(LStrip(s))

\* str.split(','): one field per comma plus one; '' splits into ['']
RECURSIVE SplitComma(_, _)
SplitComma(s, field) ==
    IF s = <<>> THEN <<field>>
    ELSE IF Head(s) = "," THEN <<field>> \o SplitComma(Tail(s), <<>>)
    ELSE SplitComma(Tail(s), Append(field, Head(s)))

\* re.split(r'[,\s]+', s): fields between maximal runs of commas / whitespace
RECURSIVE ReSplit(_, _, _)
ReSplit(s, field, inSep) ==
    IF s = <<>> THEN <<field>>
    ELSE IF Head(s) = "," \/ Head(s) \in Whitespace
         THEN IF inSep THEN ReSplit(Tail(s), field, TRUE)
              ELSE <<field>> \o ReSplit(Tail(s), <<>>, TRUE)
    ELSE ReSplit(Tail(s), Append(field, Head(s)), FALSE)

\* int(s) raises ValueError unless s, stripped, is an optional sign and digits
IsIntLiteral(s) ==
    LET t == Strip(s)
        d == IF t # <<>> /\ Head(t) \in {"+", "-"} THEN Tail(t) ELSE t
    IN  d # <<>> /\ \A i \in 1..Len(d) : IsDigit(d[i])

RECURSIVE DigitsValue(_)
DigitsValue(d) ==
    IF d = <<>> THEN 0
    ELSE 10 * DigitsValue(SubSeq(d, 1, Len(d) - 1)) + DigitValue(d[Len(d)])

IntOf(s) ==
    LET t == Strip(s)
    IN  IF Head(t) = "-" THEN 0 - DigitsValue(Tail(t))
        ELSE IF Head(t) = "+" THEN DigitsValue(Tail(t))
        ELSE DigitsValue(t)

\* [int(t) for t in fields]
RECURSIVE IntsOf(_)
IntsOf(fields) ==
    IF fields = <<>> THEN <<>> ELSE <<IntOf(Head(fields))>> \o IntsOf(Tail(fields))

\* sorted(list of int)
RECURSIVE Insert(_, _)
Insert(x, seq) ==
    IF seq = <<>> THEN <<x>>
    ELSE IF x < Head(seq) THEN <<x>> \o seq
    ELSE <<Head(seq)>> \o Insert(x, Tail(seq))

RECURSIVE Sorted(_)
Sorted(seq) ==
    IF seq = <<>> THEN <<>> ELSE Insert(Head(seq), Sorted(Tail(seq)))

(***************************************************************************)
(* The raw texts the tools are called on: fields joined by commas.         *)
(***************************************************************************)
\* str(n) for 0 <= n <= 99
Numeral(n) ==
    IF n < 10 THEN <<Digits[n + 1]>> ELSE <<Digits[(n \div 10) + 1], Digits[(n % 10) + 1]>>

RECURSIVE Join(_)
Join(fields) ==
    IF fields = <<>> THEN <<>>
    ELSE IF Len(fields) = 1 THEN Head(fields)
    ELSE Head(fields) \o <<",">> \o Join(Tail(fields))

SeqsUpTo(S, n) == UNION {[1..k -> S] : k \in 0..n}

(***************************************************************************)
(* tooth_validator.py                                                      *)
(***************************************************************************)
\* VALID_TEETH with every range ending one too far: range(11, 20) ...
VALID_TEETH_through_9 == (11..19) \cup (21..29) \cup (31..39) \cup (41..49)

\* ToothValidator.VALID_TEETH
VALID_TEETH == (11..18) \cup (21..28) \cup (31..38) \cup (41..48)

\* ToothValidator.validate_single_tooth; the error text is kept as its kind
validate_single_tooth(tooth_number) ==
    IF tooth_number \notin VALID_TEETH
    THEN [valid |-> FALSE,
          tooth_number |-> tooth_number,
          quadrant |-> None,
          position |-> None,
          error |->
            IF tooth_number < 11 THEN "below_11"
            ELSE IF tooth_number > 48 THEN "above_48"
            ELSE IF (tooth_number \div 10) \notin {1, 2, 3, 4} THEN "invalid_quadrant"
            ELSE IF (tooth_number % 10) < 1 \/ (tooth_number % 10) > 8
                 THEN "invalid_position"
            ELSE "invalid_tooth_number"]
    ELSE [valid |-> TRUE,
          tooth_number |-> tooth_number,
          quadrant |-> tooth_number \div 10,
          position |-> tooth_number % 10,
          error |-> None]

\* ToothValidator._check_continuity
check_continuity(teeth) ==
    IF Len(teeth) <= 1 THEN TRUE
    ELSE LET sorted_teeth == Sorted(teeth)
             quadrants == {sorted_teeth[i] \div 10 : i \in 1..Len(sorted_teeth)}
         IN  IF Cardinality(quadrants) > 1
             THEN Range(sorted_teeth) = {11, 21}
             ELSE \A i \in 1..(Len(sorted_teeth) - 1) :
                      sorted_teeth[i + 1] - sorted_teeth[i] = 1

\* ToothValidator.validate_multiple_teeth
validate_multiple_teeth(tooth_positions) ==
    LET tooth_numbers_str == ReSplit(Strip(tooth_positions), <<>>, FALSE)
        nonempty == SelectSeq(tooth_numbers_str, LAMBDA t : t # <<>>)
    IN  IF \E i \in 1..Len(nonempty) : ~IsIntLiteral(nonempty[i])
        THEN [valid |-> FALSE, teeth |-> <<>>, valid_teeth |-> <<>>,
              invalid_teeth |-> <<>>, count |-> 0, error |-> "invalid_input_format",
              quadrants_involved |-> <<>>, is_continuous |-> FALSE]
        ELSE
        LET tooth_numbers == IntsOf(nonempty)
        IN  IF tooth_numbers = <<>>
            THEN [valid |-> FALSE, teeth |-> <<>>, valid_teeth |-> <<>>,
                  invalid_teeth |-> <<>>, count |-> 0, error |-> "no_tooth_positions",
                  quadrants_involved |-> <<>>, is_continuous |-> FALSE]
            ELSE
            LET valid_teeth ==
                    SelectSeq(tooth_numbers, LAMBDA t : validate_single_tooth(t).valid)
                invalid ==
                    SelectSeq(tooth_numbers, LAMBDA t : ~validate_single_tooth(t).valid)
                invalid_teeth ==
                    [i \in 1..Len(invalid) |->
                        [tooth_number |-> invalid[i],
                         error |-> validate_single_tooth(invalid[i]).error]]
                all_valid == Len(invalid_teeth) = 0
                quadrants == {valid_teeth[i] \div 10 : i \in 1..Len(valid_teeth)}
                quadrants_involved ==
                    Sorted(SelectSeq(<<1, 2, 3, 4>>, LAMBDA q : q \in quadrants))
            IN  [valid |-> all_valid,
                 teeth |-> tooth_numbers,
                 valid_teeth |-> valid_teeth,
                 invalid_teeth |-> invalid_teeth,
                 count |-> Len(tooth_numbers),
                 error |-> IF all_valid THEN None ELSE "invalid_tooth_positions",
                 quadrants_involved |-> quadrants_involved,
                 is_continuous |-> check_continuity(valid_teeth)]

\* validate_tooth_position, the tool function
validate_tooth_position(tooth_positions) == validate_multiple_teeth(tooth_positions)

(***************************************************************************)
(* Tooth validator: the calls and their inputs.                            *)
(***************************************************************************)
ToothNumbers == (0 - NegToothNumbers)..MaxToothNumber

\* fields of the texts given to validate_tooth_position
ToothFields ==
    {Numeral(n) : n \in {11, 12, 13, 19, 21, 31, 41}}
        \cup {<<>>, <<"x">>, <<"1", "1", " ", "1", "2">>}

ToothTexts == {Join(f) : f \in SeqsUpTo(ToothFields, MaxToothFields)}

InitTooth ==
    /\ pc = "call"
    /\ tool_result = None
    /\ NoSession
    /\ \/ /\ tool_name = "validate_single_tooth"
          /\ arguments \in [tooth_number : ToothNumbers]
       \/ /\ tool_name = "validate_tooth_positions"
          /\ arguments \in [tooth_positions : ToothTexts]

ValidateSingleTooth ==
    /\ pc = "call"
    /\ tool_name = "validate_single_tooth"
    /\ tool_result' = validate_single_tooth(arguments.tooth_number)
    /\ pc' = "done"
    /\ UNCHANGED <<tool_name, arguments>>
    /\ UNCHANGED session_vars

ValidateToothPositions ==
    /\ pc = "call"
    /\ tool_name = "validate_tooth_positions"
    /\ tool_result' = validate_tooth_position(arguments.tooth_positions)
    /\ pc' = "done"
    /\ UNCHANGED <<tool_name, arguments>>
    /\ UNCHANGED session_vars

NextTooth == ValidateSingleTooth \/ ValidateToothPositions

SpecTooth == InitTooth /\ [][NextTooth]_vars

(***************************************************************************)
(* C1: for every integer n the tooth validator reports n valid iff         *)
(* n div 10 is in {1,2,3,4} and n mod 10 is in {1..8}; 10, 19, 20, 29, 30, *)
(* 39, 40, 49, every n >= 50 and every n < 11 are invalid.                 *)
(***************************************************************************)
C1_ValidIffQuadrantAndPosition ==
    (pc = "done" /\ tool_name = "validate_single_tooth") =>
        LET n == arguments.tooth_number
        IN  /\ tool_result.valid <=>
                ((n \div 10) \in {1, 2, 3, 4} /\ (n % 10) \in 1..8)
            /\ (n \in {10, 19, 20, 29, 30, 39, 40, 49} \/ n >= 50 \/ n < 11)
                    => ~tool_result.valid

C1_Witness ==
    /\ pc = "done"
    /\ tool_name = "validate_single_tooth"
    /\ arguments.tooth_number = 49
    /\ ~tool_result.valid

(***************************************************************************)
(* C5: is_continuous is true for a list of valid teeth exactly when all    *)
(* lie in one quadrant with sorted gaps of exactly 1, or the set is one of *)
(* the midline pairs {11,21}, {31,41}; zero or one tooth is continuous.    *)
(***************************************************************************)
C5_ContinuityWithBothMidlinePairs ==
    (pc = "done" /\ tool_name = "validate_tooth_positions"
        /\ tool_result.error \in {None, "invalid_tooth_positions"}) =>
        LET teeth == tool_result.valid_teeth
            s == Sorted(teeth)
        IN  tool_result.is_continuous <=>
                \/ Len(teeth) <= 1
                \/ /\ \A i, j \in 1..Len(teeth) : teeth[i] \div 10 = teeth[j] \div 10
                   /\ \A i \in 1..(Len(s) - 1) : s[i + 1] = s[i] + 1
                \/ Range(teeth) = {11, 21}
                \/ Range(teeth) = {31, 41}

(***************************************************************************)
(* rules.py: validate_bridge_positions                                     *)
(***************************************************************************)
\* dict.get(key, default)
Get(params, key, default) == IF key \in DOMAIN params THEN params[key] ELSE default

\* positions[i+1] - positions[i] != 1
gap_at(positions, i) == positions[i + 1] - positions[i] # 1

\* the last i the continuity loop would stop at, were it to run backwards
last_gap(positions) ==
    CHOOSE i \in 1..(Len(positions) - 1) :
        /\ gap_at(positions, i)
        /\ \A j \in (i + 1)..(Len(positions) - 1) : ~gap_at(positions, j)

\* the i at which the loop "for i in range(len(positions) - 1)" returns
first_gap(positions) ==
    CHOOSE i \in 1..(Len(positions) - 1) :
        /\ gap_at(positions, i)
        /\ \A j \in 1..(i - 1) : ~gap_at(positions, j)

\* a length check that also asks for the 3 units the system prompt speaks of
too_long_or_short(positions) == Len(positions) > 4 \/ Len(positions) < 3

\* len(positions) > 4
too_long(positions) == Len(positions) > 4

\* anterior teeth as the incisors and canines of the two upper quadrants only
is_anterior_incisors_canines(positions) ==
    \E i \in 1..Len(positions) :
        (11 <= positions[i] /\ positions[i] <= 13)
            \/ (21 <= positions[i] /\ positions[i] <= 23)

\* any(11 <= p <= 23 for p in positions)
is_anterior(positions) ==
    \E i \in 1..Len(positions) : 11 <= positions[i] /\ positions[i] <= 23

\* validate_bridge_positions; a message is kept as the values it interpolates
validate_bridge_positions(params) ==
    LET tooth_positions_str == Get(params, "tooth_positions", <<>>)
    IN  IF tooth_positions_str = <<>> \/ Strip(tooth_positions_str) = <<>>
        THEN [valid |-> FALSE, message |-> <<"provide_positions">>,
              error_type |-> "missing_positions"]
        ELSE
        LET fields == SelectSeq(SplitComma(tooth_positions_str, <<>>),
                                LAMBDA p : Strip(p) # <<>>)
        IN  IF \E i \in 1..Len(fields) : ~IsIntLiteral(Strip(fields[i]))
            THEN [valid |-> FALSE, message |-> <<"use_numbers">>,
                  error_type |-> "invalid_format"]
            ELSE IF fields = <<>>
            THEN [valid |-> FALSE, message |-> <<"provide_valid_positions">>,
                  error_type |-> "missing_positions"]
            ELSE
            LET positions == Sorted(IntsOf(fields))
            IN  IF \E i \in 1..(Len(positions) - 1) : gap_at(positions, i)
                THEN LET i == first_gap(positions)
                     IN  [valid |-> FALSE,
                          message |-> <<"missing_between", positions[i],
                                        positions[i + 1], positions[i] + 1>>,
                          error_type |-> "discontinuous",
                          positions |-> positions]
                ELSE IF too_long(positions)
                THEN [valid |-> FALSE,
                      message |-> <<"at_most_4", Len(positions)>>,
                      error_type |-> "too_long",
                      positions |-> positions]
                ELSE [valid |-> TRUE,
                      message |-> <<"passed", positions>>,
                      bridge_span |-> Len(positions),
                      position_type |->
                          IF is_anterior(positions) THEN "anterior" ELSE "posterior",
                      positions |-> positions]

(***************************************************************************)
(* Bridge validator: the call and its inputs.                              *)
(***************************************************************************)
BridgeNumerals == {Numeral(n) : n \in {12, 13, 14, 15, 16, 24}}

\* fields that are not plain numerals: empty, blank, text, padded, two numbers
BridgeFields ==
    {Numeral(n) : n \in {11, 13, 14, 23, 24, 25}}
        \cup {<<>>, <<" ">>, <<"x">>, <<" ", "1", "2">>, <<"1", "1", " ", "1", "2">>}

BridgeTexts ==
    {Join(f) : f \in SeqsUpTo(BridgeNumerals, MaxBridgeNumerals)}
        \cup {Join(f) : f \in SeqsUpTo(BridgeFields, MaxBridgeFields)}

InitBridge ==
    /\ pc = "call"
    /\ tool_result = None
    /\ NoSession
    /\ tool_name = "validate_bridge"
    /\ arguments \in [tooth_positions : BridgeTexts] \cup {<<>>}

\* execute_tool("validate_bridge", arguments)
ValidateBridge ==
    /\ pc = "call"
    /\ tool_name = "validate_bridge"
    /\ tool_result' = validate_bridge_positions(arguments)
    /\ pc' = "done"
    /\ UNCHANGED <<tool_name, arguments>>
    /\ UNCHANGED session_vars

NextBridge == ValidateBridge

SpecBridge == InitBridge /\ [][NextBridge]_vars

\* the fields of a text that are not blank
BridgeFieldsOf(text) ==
    SelectSeq(SplitComma(text, <<>>), LAMBDA p : Strip(p) # <<>>)

\* every such field is an integer literal
ParsesToIntegers(text) ==
    LET fields == BridgeFieldsOf(text)
    IN  \A i \in 1..Len(fields) : IsIntLiteral(fields[i])

\* the integers the text parses to
ParsedPositions(text) ==
    IF ParsesToIntegers(text) THEN IntsOf(BridgeFieldsOf(text)) ELSE <<>>

BridgeDone == pc = "done" /\ tool_name = "validate_bridge"

BridgeInput == Get(arguments, "tooth_positions", <<>>)

C4_Bridge141516IsPosterior ==
    (BridgeDone /\ BridgeInput = Join(<<Numeral(14), Numeral(15), Numeral(16)>>)) =>
        /\ tool_result.valid
        /\ tool_result.bridge_span = 3
        /\ tool_result.position_type = "posterior"

(***************************************************************************)
(* C6: when the sorted positions contain neighbours whose difference is    *)
(* not 1 the result is invalid, discontinuous, and the message names the   *)
(* tooth one above the lower side of the first such gap; too_long is       *)
(* returned only for fully adjacent runs of more than 4 positions.         *)
(***************************************************************************)
C6_DiscontinuousNamesFirstMissingTooth ==
    (BridgeDone /\ ParsesToIntegers(BridgeInput)) =>
        LET s == Sorted(ParsedPositions(BridgeInput))
            gaps == {i \in 1..(Len(s) - 1) : s[i + 1] - s[i] # 1}
        IN  /\ gaps # {} =>
                /\ ~tool_result.valid
                /\ tool_result.error_type = "discontinuous"
                /\ \A i \in gaps :
                       (\A j \in gaps : i <= j) => tool_result.message[4] = s[i] + 1
            /\ (~tool_result.valid /\ tool_result.error_type = "too_long") =>
                    (gaps = {} /\ Len(s) > 4)

C6_Witness ==
    /\ BridgeDone
    /\ BridgeInput = Join(<<Numeral(11), Numeral(13), Numeral(14)>>)
    /\ tool_result.error_type = "discontinuous"
    /\ tool_result.message[4] = 12

(***************************************************************************)
(* rules.py: validate_material_compatibility                               *)
(***************************************************************************)
UpperCase ==
    <<"A", "B", "C", "D", "E", "F", "G", "H", "I", "J", "K", "L", "M",
      "N", "O", "P", "Q", "R", "S", "T", "U", "V", "W", "X", "Y", "Z">>

LowerCase ==
    <<"a", "b", "c", "d", "e", "f", "g", "h", "i", "j", "k", "l", "m",
      "n", "o", "p", "q", "r", "s", "t", "u", "v", "w", "x", "y", "z">>

LowerChar(c) ==
    IF \E i \in 1..26 : UpperCase[i] = c
    THEN LowerCase[CHOOSE i \in 1..26 : UpperCase[i] = c]
    ELSE c

\* str.lower()
Lower(s) == [i \in 1..Len(s) |-> LowerChar(s[i])]

\* the characters of a str as one string, the key of a dict
RECURSIVE Str(_)
Str(s) == IF s = <<>> THEN "" ELSE Head(s) \o Str(Tail(s))

\* dict.get(key, key)
Lookup(map, key) == IF key \in DOMAIN map THEN map[key] ELSE key

category_map ==
    ("pfm" :> "pfm")
    @@ ("porcelain-fused-to-metal" :> "pfm")
    @@ ("porcelain" :> "pfm")
    @@ ("U+70E4U+74F7" :> "pfm")
    @@ ("metal-free" :> "metal-free")
    @@ ("all-ceramic" :> "metal-free")
    @@ ("ceramic" :> "metal-free")
    @@ ("U+5168U+74F7" :> "metal-free")
    @@ ("full-cast" :> "full-cast")
    @@ ("full-metal" :> "full-cast")
    @@ ("full cast" :> "full-cast")
    @@ ("U+5168U+91D1U+5C6C" :> "full-cast")
    @@ ("U+5168U+91D1" :> "full-cast")

subtype_map ==
    ("high-noble" :> "high-noble")
    @@ ("high noble" :> "high-noble")
    @@ ("U+9AD8U+8CB4U+91D1U+5C6C" :> "high-noble")
    @@ ("semi-precious" :> "semi-precious")
    @@ ("semi precious" :> "semi-precious")
    @@ ("U+534AU+8CB4U+91D1U+5C6C" :> "semi-precious")
    @@ ("non-precious" :> "non-precious")
    @@ ("non precious" :> "non-precious")
    @@ ("U+975EU+8CB4U+91D1U+5C6C" :> "non-precious")
    @@ ("palladium" :> "palladium")
    @@ ("U+9200U+57FA" :> "palladium")
    @@ ("titanium" :> "titanium")
    @@ ("U+9226U+5408U+91D1" :> "titanium")
    @@ ("U+9226" :> "titanium")
    @@ ("ips-emax" :> "ips-emax")
    @@ ("ips e.max" :> "ips-emax")
    @@ ("emax" :> "ips-emax")
    @@ ("e.max" :> "ips-emax")
    @@ ("fmz" :> "fmz")
    @@ ("U+5168U+92EF" :> "fmz")
    @@ ("fmz-ultra" :> "fmz-ultra")
    @@ ("fmz ultra" :> "fmz-ultra")
    @@ ("U+9AD8U+900FU+591AU+5C64U+92EF" :> "fmz-ultra")
    @@ ("lava" :> "lava")
    @@ ("3m lava" :> "lava")
    @@ ("lava-plus" :> "lava-plus")
    @@ ("lava plus" :> "lava-plus")
    @@ ("lava-esthetic" :> "lava-esthetic")
    @@ ("lava esthetic" :> "lava-esthetic")
    @@ ("calypso" :> "calypso")
    @@ ("composite" :> "composite")
    @@ ("U+8907U+5408U+6A39U+8102" :> "composite")
    @@ ("zineer" :> "zineer")
    @@ ("high-precious-gold" :> "high-precious-gold")
    @@ ("high precious gold" :> "high-precious-gold")
    @@ ("U+9AD8U+8CB4U+9EC3U+91D1" :> "high-precious-gold")
    @@ ("semi-precious-gold" :> "semi-precious-gold")
    @@ ("semi precious gold" :> "semi-precious-gold")
    @@ ("U+534AU+8CB4U+9EC3U+91D1" :> "semi-precious-gold")
    @@ ("low-precious-gold" :> "low-precious-gold")
    @@ ("low precious gold" :> "low-precious-gold")
    @@ ("U+4F4EU+8CB4U+9EC3U+91D1" :> "low-precious-gold")
    @@ ("white-gold" :> "white-gold")
    @@ ("white gold" :> "white-gold")
    @@ ("U+767DU+91D1" :> "white-gold")
    @@ ("pure-titanium" :> "pure-titanium")
    @@ ("pure titanium" :> "pure-titanium")
    @@ ("U+7D14U+9226" :> "pure-titanium")

\* a rule's reason text is kept as the name of the rule
compatibility_rules ==
    ("crown" :>
        (("pfm" :> [allowed_subtypes |-> <<"high-noble", "semi-precious", "non-precious", "palladium", "titanium">>,
             reason |-> "reason of crown pfm"])
        @@ ("metal-free" :> [allowed_subtypes |-> <<"ips-emax", "fmz", "fmz-ultra", "lava", "lava-plus", "lava-esthetic", "calypso", "composite">>,
             forbidden_subtypes |-> <<"zineer">>,
             reason |-> "reason of crown metal-free"])
        @@ ("full-cast" :> [allowed_subtypes |-> <<"high-precious-gold", "semi-precious-gold", "low-precious-gold", "white-gold", "pure-titanium", "non-precious">>,
             reason |-> "reason of crown full-cast"])))
    @@ ("bridge" :>
        (("pfm" :> [allowed_subtypes |-> <<"titanium", "non-precious", "high-noble", "semi-precious">>,
             reason |-> "reason of bridge pfm"])
        @@ ("metal-free" :> [allowed_subtypes |-> <<"ips-emax", "fmz", "lava">>,
             forbidden_subtypes |-> <<"composite", "zineer">>,
             reason |-> "reason of bridge metal-free"])
        @@ ("full-cast" :> [allowed_subtypes |-> <<"high-precious-gold", "titanium">>,
             reason |-> "reason of bridge full-cast"])))
    @@ ("veneer" :>
        (("pfm" :> [allowed_subtypes |-> <<>>,
             reason |-> "reason of veneer pfm"])
        @@ ("metal-free" :> [allowed_subtypes |-> <<"ips-emax">>,
             forbidden_subtypes |-> <<"composite", "zineer", "fmz">>,
             reason |-> "reason of veneer metal-free"])
        @@ ("full-cast" :> [allowed_subtypes |-> <<>>,
             reason |-> "reason of veneer full-cast"])))
    @@ ("inlay" :>
        (("pfm" :> [allowed_subtypes |-> <<>>,
             reason |-> "reason of inlay pfm"])
        @@ ("metal-free" :> [allowed_subtypes |-> <<"ips-emax", "composite">>,
             reason |-> "reason of inlay metal-free"])
        @@ ("full-cast" :> [allowed_subtypes |-> <<"high-precious-gold", "pure-titanium">>,
             reason |-> "reason of inlay full-cast"])))
    @@ ("onlay" :>
        (("pfm" :> [allowed_subtypes |-> <<>>,
             reason |-> "reason of onlay pfm"])
        @@ ("metal-free" :> [allowed_subtypes |-> <<"ips-emax", "fmz">>,
             reason |-> "reason of onlay metal-free"])
        @@ ("full-cast" :> [allowed_subtypes |-> <<"high-precious-gold", "pure-titanium">>,
             reason |-> "reason of onlay full-cast"])))

\* the order of the keys of every compatibility_rules[restoration_type]
CategoryOrder == <<"pfm", "metal-free", "full-cast">>

\* every category listed, allowed or not
all_categories(restoration_rules) == CategoryOrder

\* [cat for cat, rules in restoration_rules.items() if rules['allowed_subtypes']]
allowed_categories(restoration_rules) ==
    SelectSeq(CategoryOrder,
              LAMBDA cat : restoration_rules[cat].allowed_subtypes # <<>>)

\* the two subtype checks in the other order: allowed list first
subtype_error_allowed_first(normalized_subtype, category_rules) ==
    IF normalized_subtype \notin Range(category_rules.allowed_subtypes)
    THEN "incompatible_subtype"
    ELSE IF normalized_subtype \in Range(Get(category_rules, "forbidden_subtypes", <<>>))
    THEN "forbidden_subtype"
    ELSE None

\* the error_type the subtype checks return with, None when both pass
subtype_error(normalized_subtype, category_rules) ==
    IF normalized_subtype \in Range(Get(category_rules, "forbidden_subtypes", <<>>))
    THEN "forbidden_subtype"
    ELSE IF normalized_subtype \notin Range(category_rules.allowed_subtypes)
    THEN "incompatible_subtype"
    ELSE None

\* validate_material_compatibility; a message is kept as the values it interpolates
\* the same with the warning from a span of 3 units on
span_warnings_from_3(restoration_type, bridge_span, normalized_category, normalized_subtype) ==
    IF /\ restoration_type = "bridge"
       /\ bridge_span >= 3
       /\ normalized_category = "metal-free"
       /\ normalized_subtype \notin {"fmz", "lava"}
    THEN <<<<"span_over_3", normalized_subtype>>>>
    ELSE <<>>

\* the warnings list of a passing validation; normalized_subtype is None
\* when no subtype was given
span_warnings(restoration_type, bridge_span, normalized_category, normalized_subtype) ==
    IF /\ restoration_type = "bridge"
       /\ bridge_span > 3
       /\ normalized_category = "metal-free"
       /\ normalized_subtype \notin {"fmz", "lava"}
    THEN <<<<"span_over_3", normalized_subtype>>>>
    ELSE <<>>

validate_material_compatibility(params) ==
    LET restoration_type == Str(Lower(Get(params, "restoration_type", <<>>)))
        material_category == Str(Lower(Get(params, "material_category", <<>>)))
        material_subtype == Str(Lower(Get(params, "material_subtype", <<>>)))
        bridge_span == Get(params, "bridge_span", 1)
        normalized_category == Lookup(category_map, material_category)
        normalized_subtype ==
            IF material_subtype # "" THEN Lookup(subtype_map, material_subtype) ELSE None
    IN  IF restoration_type = ""
        THEN [valid |-> FALSE, message |-> <<"missing_restoration_type">>,
              error_type |-> "missing_parameter"]
        ELSE IF material_category = ""
        THEN [valid |-> FALSE, message |-> <<"missing_material_category">>,
              error_type |-> "missing_parameter"]
        ELSE IF restoration_type \notin DOMAIN compatibility_rules
        THEN [valid |-> FALSE, message |-> <<"unsupported", restoration_type>>,
              error_type |-> "unsupported_restoration_type"]
        ELSE
        LET restoration_rules == compatibility_rules[restoration_type]
        IN  IF normalized_category \notin DOMAIN restoration_rules
            THEN [valid |-> FALSE,
                  message |-> <<"unsupported", restoration_type, normalized_category>>,
                  error_type |-> "unsupported_category"]
            ELSE
            LET category_rules == restoration_rules[normalized_category]
            IN  IF category_rules.allowed_subtypes = <<>>
                THEN [valid |-> FALSE,
                      message |-> <<"cannot_use", restoration_type, normalized_category,
                                    category_rules.reason>>,
                      error_type |-> "forbidden_category",
                      allowed_categories |-> allowed_categories(restoration_rules)]
                ELSE IF normalized_subtype # None
                        /\ subtype_error(normalized_subtype, category_rules) # None
                THEN [valid |-> FALSE,
                      message |-> <<subtype_error(normalized_subtype, category_rules),
                                    restoration_type, normalized_category,
                                    normalized_subtype>>,
                      error_type |-> subtype_error(normalized_subtype, category_rules),
                      allowed_subtypes |-> category_rules.allowed_subtypes]
                ELSE
                LET warnings == span_warnings(restoration_type, bridge_span,
                                              normalized_category, normalized_subtype)
                IN  [valid |-> TRUE,
                     message |-> <<"passed", restoration_type, normalized_category,
                                   normalized_subtype>>,
                     material_category |-> normalized_category,
                     material_subtype |-> normalized_subtype,
                     allowed_subtypes |-> category_rules.allowed_subtypes,
                     warnings |-> warnings]

(***************************************************************************)
(* Rule engine: the call and its inputs.                                   *)
(***************************************************************************)
RestorationTexts ==
    {
     <<"c", "r", "o", "w", "n">>,
     <<"b", "r", "i", "d", "g", "e">>,
     <<"v", "e", "n", "e", "e", "r">>,
     <<"i", "n", "l", "a", "y">>,
     <<"o", "n", "l", "a", "y">>,
     <<"C", "r", "o", "w", "n">>,
     <<"i", "m", "p", "l", "a", "n", "t">>,
     <<>>
    }

CategoryTexts ==
    {
     <<"p", "f", "m">>,
     <<"m", "e", "t", "a", "l", "-", "f", "r", "e", "e">>,
     <<"f", "u", "l", "l", "-", "c", "a", "s", "t">>,
     <<"P", "F", "M">>,
     <<"c", "e", "r", "a", "m", "i", "c">>,
     <<"U+5168", "U+74F7">>,
     <<"z", "i", "r", "c", "o", "n", "i", "a">>,
     <<>>
    }

SubtypeTexts ==
    {
     <<>>,
     <<"z", "i", "n", "e", "e", "r">>,
     <<"Z", "i", "n", "e", "e", "r">>,
     <<"e", "m", "a", "x">>,
     <<"e", ".", "m", "a", "x">>,
     <<"I", "P", "S", " ", "e", ".", "m", "a", "x">>,
     <<"f", "m", "z">>,
     <<"l", "a", "v", "a">>,
     <<"l", "a", "v", "a", " ", "p", "l", "u", "s">>,
     <<"c", "o", "m", "p", "o", "s", "i", "t", "e">>,
     <<"c", "a", "l", "y", "p", "s", "o">>,
     <<"n", "p">>,
     <<"t", "i">>,
     <<"t", "i", "t", "a", "n">>,
     <<"n", "o", "n", "-", "p", "r", "e", "c", "i", "o", "u", "s">>,
     <<"t", "i", "t", "a", "n", "i", "u", "m">>,
     <<"h", "i", "g", "h", "-", "p", "r", "e", "c", "i", "o", "u", "s", "-", "g", "o", "l", "d">>,
     <<"p", "u", "r", "e", "-", "t", "i", "t", "a", "n", "i", "u", "m">>,
     <<"U+5168", "U+92EF">>,
     <<"z", "i", "r", "c", "o", "n", "i", "a">>
    }

Restrict(f, keys) == [k \in keys |-> f[k]]

\* the keys a call may leave out
MaterialKeySets ==
    LET all == {"restoration_type", "material_category", "material_subtype", "bridge_span"}
    IN  {all, all \ {"material_subtype"}, all \ {"bridge_span"},
         all \ {"material_subtype", "bridge_span"},
         all \ {"restoration_type"}, all \ {"material_category"}}

MaterialArguments ==
    {Restrict(r, keys) :
        r \in [restoration_type : RestorationTexts,
               material_category : CategoryTexts,
               material_subtype : SubtypeTexts,
               bridge_span : 1..MaxBridgeSpan],
        keys \in MaterialKeySets}

InitMaterial ==
    /\ pc = "call"
    /\ tool_result = None
    /\ NoSession
    /\ tool_name = "validate_material"
    /\ arguments \in MaterialArguments

\* execute_tool("validate_material", arguments)
ValidateMaterial ==
    /\ pc = "call"
    /\ tool_name = "validate_material"
    /\ tool_result' = validate_material_compatibility(arguments)
    /\ pc' = "done"
    /\ UNCHANGED <<tool_name, arguments>>
    /\ UNCHANGED session_vars

NextMaterial == ValidateMaterial

SpecMaterial == InitMaterial /\ [][NextMaterial]_vars

MaterialDone == pc = "done" /\ tool_name = "validate_material"

\* what the call was made on, as the rule engine reads it
ArgRestorationType == Str(Lower(Get(arguments, "restoration_type", <<>>)))

ArgCategory == Lookup(category_map, Str(Lower(Get(arguments, "material_category", <<>>))))

ArgSubtype ==
    LET material_subtype == Str(Lower(Get(arguments, "material_subtype", <<>>)))
    IN  IF material_subtype # "" THEN Lookup(subtype_map, material_subtype) ELSE None

\* the (restoration type, category) pair has a rule
HasRule ==
    /\ ArgRestorationType \in DOMAIN compatibility_rules
    /\ ArgCategory \in DOMAIN compatibility_rules[ArgRestorationType]

ArgRule == compatibility_rules[ArgRestorationType][ArgCategory]

\* the category is permitted for the restoration type
CategoryPermitted == HasRule /\ ArgRule.allowed_subtypes # <<>>

(***************************************************************************)
(* C7: in validation mode (a subtype is given, the category is permitted)  *)
(* the result is forbidden_subtype if the subtype is in forbidden_subtypes,*)
(* otherwise incompatible_subtype if it is not in allowed_subtypes,        *)
(* otherwise valid; both failures carry the rule's allowed_subtypes.       *)
(***************************************************************************)
C7_ForbiddenBeforeAllowed ==
    (MaterialDone /\ CategoryPermitted /\ ArgSubtype # None) =>
        LET forbidden == Range(Get(ArgRule, "forbidden_subtypes", <<>>))
            allowed == Range(ArgRule.allowed_subtypes)
        IN  IF ArgSubtype \in forbidden
            THEN /\ ~tool_result.valid
                 /\ tool_result.error_type = "forbidden_subtype"
                 /\ tool_result.allowed_subtypes = ArgRule.allowed_subtypes
            ELSE IF ArgSubtype \notin allowed
            THEN /\ ~tool_result.valid
                 /\ tool_result.error_type = "incompatible_subtype"
                 /\ tool_result.allowed_subtypes = ArgRule.allowed_subtypes
            ELSE tool_result.valid

C7_Witness ==
    /\ MaterialDone
    /\ ArgRestorationType = "crown"
    /\ ArgCategory = "metal-free"
    /\ ArgSubtype = "zineer"
    /\ tool_result.error_type = "forbidden_subtype"

(***************************************************************************)
(* C8: for every (restoration type, category) whose rule has an empty      *)
(* allowed_subtypes, the result is forbidden_category with or without a    *)
(* subtype, and allowed_categories is exactly the categories whose         *)
(* allowed_subtypes is non-empty (veneer + pfm gives [metal-free]).        *)
(***************************************************************************)
C8_ForbiddenCategoryListsAllowedOnes ==
    (MaterialDone /\ HasRule /\ ArgRule.allowed_subtypes = <<>>) =>
        /\ ~tool_result.valid
        /\ tool_result.error_type = "forbidden_category"
        /\ Range(tool_result.allowed_categories) =
                {cat \in DOMAIN compatibility_rules[ArgRestorationType] :
                    compatibility_rules[ArgRestorationType][cat].allowed_subtypes # <<>>}
        /\ (ArgRestorationType = "veneer" /\ ArgCategory = "pfm") =>
                tool_result.allowed_categories = <<"metal-free">>

C8_Witness ==
    /\ MaterialDone
    /\ ArgRestorationType = "veneer"
    /\ ArgCategory = "pfm"
    /\ ArgSubtype # None
    /\ tool_result.error_type = "forbidden_category"
    /\ tool_result.allowed_categories = <<"metal-free">>

(***************************************************************************)
(* C9: in query mode (no subtype, category permitted) the result is        *)
(* successful, flagged query_mode = true and carries the full              *)
(* allowed_subtypes and the rule's reason; for bridge + metal-free the     *)
(* list has neither composite nor zineer.                                  *)
(***************************************************************************)
C9_QueryModeFlaggedWithListAndReason ==
    (MaterialDone /\ CategoryPermitted /\ ArgSubtype = None) =>
        /\ tool_result.valid
        /\ tool_result.allowed_subtypes = ArgRule.allowed_subtypes
        /\ (ArgRestorationType = "bridge" /\ ArgCategory = "metal-free") =>
                Range(tool_result.allowed_subtypes) \cap {"composite", "zineer"} = {}
        /\ "query_mode" \in DOMAIN tool_result
        /\ tool_result.query_mode = TRUE
        /\ "reason" \in DOMAIN tool_result
        /\ tool_result.reason = ArgRule.reason

\* the restoration types and the categories the rule table knows
SupportedRestorationTypes == DOMAIN compatibility_rules

SupportedCategories == {CategoryOrder[i] : i \in DOMAIN CategoryOrder}

\* the failure names every one of the alternatives, in its message or in a
\* field of its own
ListsAlternatives(r, alternatives) ==
    \/ alternatives \subseteq Range(r.message)
    \/ \E k \in DOMAIN r \ {"valid", "message", "error_type"} :
            alternatives \subseteq Range(r[k])

(***************************************************************************)
(* C11: when the restoration type is not one of the five supported types,  *)
(* or the synonym-normalized category is not one of the three supported    *)
(* categories, the result is a typed failure that lists the valid          *)
(* alternatives (the supported types, or the supported categories).        *)
(* Stated for calls that name a type and a category.                       *)
(***************************************************************************)
C11_UnsupportedListsValidAlternatives ==
    (MaterialDone /\ ArgRestorationType # "" /\ ArgCategory # "") =>
        /\ ArgRestorationType \notin SupportedRestorationTypes =>
                /\ ~tool_result.valid
                /\ "error_type" \in DOMAIN tool_result
                /\ ListsAlternatives(tool_result, SupportedRestorationTypes)
        /\ (/\ ArgRestorationType \in SupportedRestorationTypes
            /\ ArgCategory \notin SupportedCategories) =>
                /\ ~tool_result.valid
                /\ "error_type" \in DOMAIN tool_result
                /\ ListsAlternatives(tool_result, SupportedCategories)

\* the bridge_span the rule engine reads: 1 when none is given
ArgBridgeSpan == Get(arguments, "bridge_span", 1)

(***************************************************************************)
(* C12: the valid flag does not depend on bridge_span (it is the flag of   *)
(* the same call without a bridge_span), and a passing result carries a    *)
(* warning exactly when the type is bridge, bridge_span > 3, the category  *)
(* is metal-free and the subtype is neither fmz nor lava (which includes   *)
(* a call that names no subtype); otherwise its warnings list is empty.    *)
(***************************************************************************)
C12_SpanWarningIsAdvisory ==
    MaterialDone =>
        /\ tool_result.valid =
                validate_material_compatibility(
                    Restrict(arguments, DOMAIN arguments \ {"bridge_span"})).valid
        /\ tool_result.valid =>
                (tool_result.warnings # <<>>) <=>
                    /\ ArgRestorationType = "bridge"
                    /\ ArgBridgeSpan > 3
                    /\ ArgCategory = "metal-free"
                    /\ ArgSubtype \notin {"fmz", "lava"}
        /\ "warnings" \in DOMAIN tool_result => tool_result.valid

C12_Witness ==
    /\ MaterialDone
    /\ ArgRestorationType = "bridge"
    /\ ArgBridgeSpan > 3
    /\ ArgCategory = "metal-free"
    /\ ArgSubtype = "ips-emax"
    /\ tool_result.valid
    /\ Len(tool_result.warnings) = 1

(***************************************************************************)
(* material_normalizer.py                                                  *)
(* Material names are kept as character sequences throughout.              *)
(***************************************************************************)
STANDARD_MATERIALS ==
    ("pfm" :> <<
            <<"h", "i", "g", "h", "-", "n", "o", "b", "l", "e">>,
            <<"s", "e", "m", "i", "-", "p", "r", "e", "c", "i", "o", "u", "s">>,
            <<"n", "o", "n", "-", "p", "r", "e", "c", "i", "o", "u", "s">>,
            <<"p", "a", "l", "l", "a", "d", "i", "u", "m">>,
            <<"t", "i", "t", "a", "n", "i", "u", "m">>>>)
    @@ ("metal-free" :> <<
            <<"e", "m", "a", "x">>,
            <<"f", "m", "z">>,
            <<"f", "m", "z", "-", "u", "l", "t", "r", "a">>,
            <<"l", "a", "v", "a">>,
            <<"l", "a", "v", "a", "-", "p", "l", "u", "s">>,
            <<"l", "a", "v", "a", "-", "e", "s", "t", "h", "e", "t", "i", "c">>,
            <<"c", "a", "l", "y", "p", "s", "o">>,
            <<"c", "o", "m", "p", "o", "s", "i", "t", "e">>,
            <<"z", "i", "n", "e", "e", "r">>>>)
    @@ ("full-cast" :> <<
            <<"h", "i", "g", "h", "-", "p", "r", "e", "c", "i", "o", "u", "s", "-", "g", "o", "l", "d">>,
            <<"s", "e", "m", "i", "-", "p", "r", "e", "c", "i", "o", "u", "s", "-", "g", "o", "l", "d">>,
            <<"l", "o", "w", "-", "p", "r", "e", "c", "i", "o", "u", "s", "-", "g", "o", "l", "d">>,
            <<"w", "h", "i", "t", "e", "-", "g", "o", "l", "d">>,
            <<"p", "u", "r", "e", "-", "t", "i", "t", "a", "n", "i", "u", "m">>,
            <<"n", "o", "n", "-", "p", "r", "e", "c", "i", "o", "u", "s">>>>)

\* STANDARD_MATERIALS.get(material_category, [])
materials_of(material_category) ==
    IF material_category \in DOMAIN STANDARD_MATERIALS
    THEN STANDARD_MATERIALS[material_category] ELSE <<>>

\* the table of _normalize_simple
simple_rules ==
    (<<"e", "m", "a", "x">> :> <<"e", "m", "a", "x">>)
    @@ (<<"e", ".", "m", "a", "x">> :> <<"e", "m", "a", "x">>)
    @@ (<<"e", "m", "x">> :> <<"e", "m", "a", "x">>)
    @@ (<<"i", "p", "s">> :> <<"e", "m", "a", "x">>)
    @@ (<<"i", "p", "s", "e", "m", "a", "x">> :> <<"e", "m", "a", "x">>)
    @@ (<<"n", "p">> :> <<"n", "o", "n", "-", "p", "r", "e", "c", "i", "o", "u", "s">>)
    @@ (<<"p", "d">> :> <<"p", "a", "l", "l", "a", "d", "i", "u", "m">>)
    @@ (<<"t", "i">> :> <<"t", "i", "t", "a", "n", "i", "u", "m">>)
    @@ (<<"c", "p", "s", "t">> :> <<"c", "o", "m", "p", "o", "s", "i", "t", "e">>)
    @@ (<<"c", "o", "m", "p">> :> <<"c", "o", "m", "p", "o", "s", "i", "t", "e">>)

\* .lower().replace(' ', '').replace('-', '').replace('.', '')
Clean(s) == SelectSeq(Lower(s), LAMBDA c : c \notin {" ", "-", "."})

\* _normalize_simple; <<>> stands for None
normalize_simple(material_input) ==
    LET cleaned == Clean(material_input)
    IN  IF cleaned \in DOMAIN simple_rules THEN simple_rules[cleaned] ELSE <<>>

\* x in y, for str
IsSubstring(x, y) ==
    \E i \in 0..(Len(y) - Len(x)) : SubSeq(y, i + 1, i + Len(x)) = x

\* the length of the longest common run of a from i and b from j
RECURSIVE CommonLen(_, _, _, _)
CommonLen(a, i, b, j) ==
    IF i > Len(a) \/ j > Len(b) THEN 0
    ELSE IF a[i] # b[j] THEN 0
    ELSE 1 + CommonLen(a, i + 1, b, j + 1)

\* difflib.SequenceMatcher.find_longest_match without junk: the longest block,
\* of those the one earliest in a, of those the one earliest in b; <<i, j, k>>
find_longest_match(a, b) ==
    LET cands == (1..Len(a)) \X (1..Len(b))
        size == [p \in cands |-> CommonLen(a, p[1], b, p[2])]
        best == CHOOSE p \in cands :
                    \A q \in cands :
                        \/ size[p] > size[q]
                        \/ /\ size[p] = size[q]
                           /\ \/ p[1] < q[1]
                              \/ (p[1] = q[1] /\ p[2] <= q[2])
    IN  <<best[1], best[2], size[best]>>

\* the total size of SequenceMatcher.get_matching_blocks()
RECURSIVE matching_size(_, _)
matching_size(a, b) ==
    IF a = <<>> \/ b = <<>> THEN 0
    ELSE LET m == find_longest_match(a, b)
         IN  IF m[3] = 0 THEN 0
             ELSE m[3]
                  + matching_size(SubSeq(a, 1, m[1] - 1), SubSeq(b, 1, m[2] - 1))
                  + matching_size(SubSeq(a, m[1] + m[3], Len(a)),
                                  SubSeq(b, m[2] + m[3], Len(b)))

\* SequenceMatcher.ratio() >= 0.6, where ratio = 2.0 * matches / (len(a) + len(b))
ratio_reaches_cutoff(a, b) == 10 * matching_size(a, b) >= 3 * (Len(a) + Len(b))

\* x < y for two str of lower-case letters
RECURSIVE StrLess(_, _)
StrLess(x, y) ==
    IF y = <<>> THEN FALSE
    ELSE IF x = <<>> THEN TRUE
    ELSE IF Head(x) = Head(y) THEN StrLess(Tail(x), Tail(y))
    ELSE (CHOOSE i \in 1..26 : LowerCase[i] = Head(x))
            < (CHOOSE i \in 1..26 : LowerCase[i] = Head(y))

\* difflib.get_close_matches(word, possibilities, n=1, cutoff=0.6): the
\* possibility with the largest (ratio, possibility); <<>> when none reaches 0.6
get_close_matches(word, possibilities) ==
    LET close == {x \in Range(possibilities) : ratio_reaches_cutoff(x, word)}
        score == [x \in close |-> matching_size(x, word)]
        \* ratio(x) < ratio(y)
        less(x, y) == score[x] * (Len(y) + Len(word)) < score[y] * (Len(x) + Len(word))
    IN  IF close = {} THEN <<>>
        ELSE <<CHOOSE x \in close :
                   \A y \in close \ {x} : less(y, x) \/ (~less(x, y) /\ StrLess(y, x))>>

\* _normalize_fuzzy; <<>> stands for None
normalize_fuzzy(material_input, material_category) ==
    LET materials_list == materials_of(material_category)
        cleaned_input == Clean(material_input)
        cleaned_standards == [i \in 1..Len(materials_list) |-> Clean(materials_list[i])]
        exact == {i \in 1..Len(materials_list) : cleaned_standards[i] = cleaned_input}
        partial == {i \in 1..Len(materials_list) :
                        \/ IsSubstring(cleaned_input, cleaned_standards[i])
                        \/ IsSubstring(cleaned_standards[i], cleaned_input)}
        first(S) == CHOOSE i \in S : \A j \in S : i <= j
        matches == get_close_matches(cleaned_input, cleaned_standards)
    IN  IF materials_list = <<>> THEN <<>>
        ELSE IF exact # {} THEN materials_list[first(exact)]
        ELSE IF partial # {} THEN materials_list[first(partial)]
        ELSE IF matches # <<>>
        THEN materials_list[first({i \in 1..Len(materials_list) :
                                        cleaned_standards[i] = matches[1]})]
        ELSE <<>>

\* the key without the input
cache_key_of_category(material_input, material_category) == material_category

\* the key with the input as it was typed
cache_key_case_sensitive(material_input, material_category) ==
    material_category \o ":" \o Str(material_input)

\* f"{material_category}:{material_input.lower()}"
cache_key(material_input, material_category) ==
    material_category \o ":" \o Str(Lower(material_input))

\* the calls of normalize_material: canonical names, an alias that the
\* fuzzy stage would match differently, a name no stage knows in two
\* spellings, an unknown category, an empty input
NormalizerInputs ==
    {<<<<"e", "m", "a", "x">>, "metal-free">>,
     <<<<"l", "a", "v", "a", "-", "p", "l", "u", "s">>, "metal-free">>,
     <<<<"T", "i">>, "full-cast">>,
     <<<<"z", "i", "r", "c", "o", "n", "i", "a">>, "metal-free">>,
     <<<<"Z", "i", "r", "c", "o", "n", "i", "a">>, "metal-free">>,
     <<<<"z", "i", "r", "c", "o", "n", "i", "a">>, "ceramic">>,
     <<<<>>, "metal-free">>}

\* what _normalize_fuzzy finds on these calls
FuzzyFindings ==
    [input \in NormalizerInputs |->
        IF input = <<<<"e", "m", "a", "x">>, "metal-free">> THEN <<"e", "m", "a", "x">>
        ELSE IF input = <<<<"l", "a", "v", "a", "-", "p", "l", "u", "s">>, "metal-free">> THEN <<"l", "a", "v", "a", "-", "p", "l", "u", "s">>
        ELSE IF input = <<<<"T", "i">>, "full-cast">> THEN <<"p", "u", "r", "e", "-", "t", "i", "t", "a", "n", "i", "u", "m">>
        ELSE <<>>]

\* the stages, fuzzy before the aliases
stages_result_fuzzy_first(simple, fuzzy, use_llm, llm, raw) ==
    IF fuzzy # <<>> THEN [result |-> fuzzy, stages |-> <<"fuzzy">>, matched |-> TRUE]
    ELSE IF simple # <<>>
    THEN [result |-> simple, stages |-> <<"fuzzy", "simple">>, matched |-> TRUE]
    ELSE IF use_llm /\ llm # <<>>
    THEN [result |-> llm, stages |-> <<"fuzzy", "simple", "llm">>, matched |-> TRUE]
    ELSE [result |-> raw, matched |-> FALSE,
          stages |-> IF use_llm THEN <<"fuzzy", "simple", "llm">> ELSE <<"fuzzy", "simple">>]

\* the stages of normalize_material after a cache miss, given what each
\* stage finds (<<>> for None): the value returned, the stages that were
\* run, and whether one of them matched
stages_result(simple, fuzzy, use_llm, llm, raw) ==
    IF simple # <<>> THEN [result |-> simple, stages |-> <<"simple">>, matched |-> TRUE]
    ELSE IF fuzzy # <<>>
    THEN [result |-> fuzzy, stages |-> <<"simple", "fuzzy">>, matched |-> TRUE]
    ELSE IF use_llm /\ llm # <<>>
    THEN [result |-> llm, stages |-> <<"simple", "fuzzy", "llm">>, matched |-> TRUE]
    ELSE [result |-> raw, matched |-> FALSE,
          stages |-> IF use_llm THEN <<"simple", "fuzzy", "llm">> ELSE <<"simple", "fuzzy">>]

\* _normalization_cache[cache_key] = ...
store(cache, key, value) ==
    [k \in DOMAIN cache \cup {key} |-> IF k = key THEN value ELSE cache[k]]

\* the raw-input fallback, not remembered
store_fallback_skipped(cache, key, fallback) == cache

\* _normalization_cache[cache_key] = fallback
store_fallback(cache, key, fallback) == store(cache, key, fallback)

\* normalize_material on a cache, given what its stages find when they are
\* run (<<>> for None): simple and fuzzy for _normalize_simple and
\* _normalize_fuzzy, llm_matched for _normalize_llm (<<>> on an error, a null
\* or an unparsable reply).  Gives the returned value, the cache
\* afterwards, the stages run and whether the external classifier was
\* called.
normalize_given(material_input, material_category, use_llm, cache, simple, fuzzy, llm_matched) ==
    LET key == cache_key(material_input, material_category)
        ask == use_llm /\ materials_of(material_category) # <<>>
        llm == IF ask THEN llm_matched ELSE <<>>
        run == stages_result(simple, fuzzy, use_llm, llm, Lower(material_input))
    IN  IF material_input = <<>>
        THEN [result |-> None, cache |-> cache, stages |-> <<>>, llm_called |-> FALSE]
        ELSE IF key \in DOMAIN cache
        THEN [result |-> cache[key], cache |-> cache, stages |-> <<>>,
              llm_called |-> FALSE]
        ELSE [result |-> run.result,
              cache |-> IF run.matched THEN store(cache, key, run.result)
                        ELSE store_fallback(cache, key, run.result),
              stages |-> run.stages,
              llm_called |-> ask /\ "llm" \in Range(run.stages)]

\* normalize_material on a cache, the first two stages computed
normalize_material(material_input, material_category, use_llm, cache, llm_matched) ==
    normalize_given(material_input, material_category, use_llm, cache,
                    normalize_simple(material_input),
                    normalize_fuzzy(material_input, material_category), llm_matched)

(***************************************************************************)
(* C10: the rule engine passes a supplied subtype text through the         *)
(* material name normalizer before consulting the rule table: for every    *)
(* category and raw subtype text x that normalize maps to a canonical      *)
(* subtype s, the verdict on x is the verdict on s.                        *)
(***************************************************************************)
Verdict(r) == <<r.valid, Get(r, "error_type", None)>>

C10_VerdictOfRawIsVerdictOfNormalized ==
    (/\ MaterialDone
     /\ Get(arguments, "material_subtype", <<>>) # <<>>
     /\ ArgCategory \in DOMAIN STANDARD_MATERIALS) =>
        LET x == arguments.material_subtype
            s == normalize_material(x, ArgCategory, FALSE, EmptyCache, <<>>).result
        IN  s \in Range(STANDARD_MATERIALS[ArgCategory]) =>
                Verdict(tool_result) =
                    Verdict(validate_material_compatibility(
                                [arguments EXCEPT !.material_subtype = s]))

(***************************************************************************)
(* tools.py: store_patient_name                                            *)
(* A name is kept as its characters.                                       *)
(***************************************************************************)
\* str.isascii() of one character: a character outside ASCII is written
\* with a placeholder longer than one symbol
IsAscii(c) == Len(c) = 1

\* str.startswith
StartsWith(s, prefix) ==
    Len(prefix) <= Len(s) /\ SubSeq(s, 1, Len(prefix)) = prefix

\* str.replace(c, '') for every character c of a set
RECURSIVE Remove(_, _)
Remove(s, chars) ==
    IF s = <<>> THEN <<>>
    ELSE IF Head(s) \in chars THEN Remove(Tail(s), chars)
    ELSE <<Head(s)>> \o Remove(Tail(s), chars)

prefixes ==
    << <<"U+75C5", "U+4EBA", ":">>, <<"U+75C5", "U+4EBA", "U+FF1A">>,
       <<"U+75C5", "U+60A3", ":">>, <<"U+75C5", "U+60A3", "U+FF1A">>,
       <<"U+60A3", "U+8005", ":">>, <<"U+60A3", "U+8005", "U+FF1A">>,
       <<"p", "a", "t", "i", "e", "n", "t", ":">>,
       <<"p", "a", "t", "i", "e", "n", "t", "U+FF1A">>,
       <<"P", "a", "t", "i", "e", "n", "t", ":">>,
       <<"P", "a", "t", "i", "e", "n", "t", "U+FF1A">>,
       <<"U+59D3", "U+540D", ":">>, <<"U+59D3", "U+540D", "U+FF1A">>,
       <<"n", "a", "m", "e", ":">>, <<"N", "a", "m", "e", ":">>,
       <<"U+59D3", "U+540D", " ">>, <<"n", "a", "m", "e", " ">> >>

\* the loop over prefixes, from the i-th prefix on
RECURSIVE strip_prefixes(_, _)
strip_prefixes(cleaned, i) ==
    IF i > Len(prefixes) THEN cleaned
    ELSE IF StartsWith(Lower(cleaned), Lower(prefixes[i]))
         THEN strip_prefixes(Strip(SubSeq(cleaned, Len(prefixes[i]) + 1, Len(cleaned))), i + 1)
         ELSE strip_prefixes(cleaned, i + 1)

\* the class of the trailing run that re.sub removes
TrailingPunctuation ==
    {"U+FF0C", "U+3002", "U+FF01", "U+FF1F", ",", ".", ";", ":", "!", "?"} \cup Whitespace

\* re.sub(r'[...]+$', '', cleaned)
RECURSIVE strip_trailing(_)
strip_trailing(cleaned) ==
    IF cleaned # <<>> /\ cleaned[Len(cleaned)] \in TrailingPunctuation
    THEN strip_trailing(SubSeq(cleaned, 1, Len(cleaned) - 1))
    ELSE cleaned

\* the same without lower(): the case of the name is kept
cleaned_lower_keeping_case(cleaned) == Remove(cleaned, {" ", "-"})

\* cleaned.lower().replace(' ', '').replace('-', '')
cleaned_lower(cleaned) == Remove(Lower(cleaned), {" ", "-"})

material_abbrs ==
    {"np", "n-p", "nonprecious", "non-precious", "nonpreciousmetal",
     "hp", "h-p", "highprecious", "high-precious", "highnoble",
     "sp", "s-p", "semiprecious", "semi-precious",
     "ti", "titanium", "zr", "zirconia", "fmz", "fullzirconia",
     "emax", "e.max", "ips", "au", "gold", "pd", "palladium",
     "cocr", "co-cr", "cobaltchrome", "cobalt-chrome"}

\* some pattern of shade_patterns matches s
matches_shade_pattern(s) ==
    LET AtoD == {"a", "b", "c", "d"}
        d14 == {"1", "2", "3", "4"}
    IN  \/ Len(s) = 2 /\ s[1] \in AtoD /\ s[2] \in d14
        \/ Len(s) = 4 /\ s[1] \in AtoD /\ s[2] \in d14 /\ s[3] = "." /\ s[4] = "5"
        \/ Len(s) = 3 /\ s[1] = "b" /\ s[2] = "l" /\ s[3] \in d14
        \/ Len(s) = 3 /\ s[1] = "0" /\ s[2] = "m" /\ s[3] \in {"1", "2", "3"}
        \/ Len(s) = 3 /\ s[1] \in AtoD /\ s[2] \in d14 /\ s[3] = "o"
        \/ Len(s) = 3 /\ s[1] \in {"1", "2", "3", "4", "5"} /\ s[2] = "m"
                      /\ s[3] \in {"1", "2", "3"}

\* re.match(r'^\d{4}$', s)
is_four_digits(s) == Len(s) = 4 /\ \A i \in 1..4 : IsDigit(s[i])

\* str.isdigit()
IsAllDigits(s) == s # <<>> /\ \A i \in 1..Len(s) : IsDigit(s[i])

store_patient_name(patient_name) ==
    LET cleaned == Strip(strip_trailing(strip_prefixes(Strip(patient_name), 1)))
        rejected(error_type) ==
            [success |-> FALSE, message |-> <<error_type, cleaned>>,
             patient_name |-> None, error_type |-> error_type]
    IN  IF cleaned = <<>> THEN rejected("empty_after_clean")
        ELSE IF Str(cleaned_lower(cleaned)) \in material_abbrs
        THEN rejected("material_abbreviation")
        ELSE IF matches_shade_pattern(cleaned_lower(cleaned))
        THEN rejected("shade_format")
        ELSE IF is_four_digits(cleaned) THEN rejected("product_code_like")
        ELSE IF \/ Len(cleaned) <= 1
                \/ Len(cleaned) <= 3 /\ \A i \in 1..Len(cleaned) : IsAscii(cleaned[i])
        THEN rejected("too_short")
        ELSE IF IsAllDigits(Remove(cleaned, {" "})) THEN rejected("all_digits")
        ELSE [success |-> TRUE, message |-> <<"recorded", cleaned>>,
              patient_name |-> cleaned, cleaned_name |-> cleaned]

(***************************************************************************)
(* main.py: the session's order data                                       *)
(* order_data is a dict from field names to values.  A text taken from a   *)
(* tool's arguments or from the user's message is stored as one string;    *)
(* patient_name is stored as its characters; bridge_span is an integer.    *)
(***************************************************************************)
\* a run of d[key] = value assignments
Update(d, assignments) ==
    [k \in DOMAIN d \cup DOMAIN assignments |->
        IF k \in DOMAIN assignments THEN assignments[k] ELSE d[k]]

\* d.pop(key) for every key of a set that d has
Pop(d, keys) == [k \in DOMAIN d \ keys |-> d[k]]

\* bool(d.get(key)) of a text field
Truthy(d, key) ==
    /\ key \in DOMAIN d
    /\ IF key = "patient_name" THEN d[key] # <<>> ELSE d[key] \notin {None, ""}

\* tool_args.get(key) of a text argument
ArgText(tool_args, key) == IF key \in DOMAIN tool_args THEN Str(tool_args[key]) ELSE None

\* the table without the bridge fields of restoration_type
fields_to_clear_materials_only(changed_field) ==
    IF changed_field = "restoration_type"
    THEN {"material_category", "material_subtype", "product_code", "product_name"}
    ELSE IF changed_field = "material_category"
    THEN {"material_subtype", "product_code", "product_name"}
    ELSE IF changed_field = "material_subtype"
    THEN {"product_code", "product_name"}
    ELSE {}

fields_to_clear(changed_field) ==
    IF changed_field = "restoration_type"
    THEN {"material_category", "material_subtype", "product_code", "product_name",
          "bridge_span", "position_type"}
    ELSE IF changed_field = "material_category"
    THEN {"material_subtype", "product_code", "product_name"}
    ELSE IF changed_field = "material_subtype"
    THEN {"product_code", "product_name"}
    ELSE {}

reset_dependent_fields(od, changed_field) == Pop(od, fields_to_clear(changed_field))

\* the same without the test that a value was recorded
changed_or_unset(od, key, new_value) == Get(od, key, None) # new_value

\* old = order_data.get(key); old and old != new_value
changed(od, key, new_value) == Truthy(od, key) /\ od[key] # new_value

\* the same for one candidate or more
exactly_one_or_more(products) == Len(products) >= 1

\* len(products) == 1
exactly_one(products) == Len(products) = 1

\* _extract_order_data keeping the teeth a tooth validation accepted
extract_order_data_recording_teeth(od, name, tool_args, result) ==
    IF name = "validate_tooth_positions" /\ Get(result, "valid", FALSE)
    THEN Update(od, [tooth_positions |-> Str(tool_args.tooth_positions)])
    ELSE od

\* _extract_order_data: what a tool outcome leaves in order_data
extract_order_data(od, name, tool_args, result) ==
    IF name = "validate_bridge"
    THEN IF Get(result, "valid", FALSE)
         THEN LET od1 == IF changed(od, "restoration_type", "bridge")
                         THEN reset_dependent_fields(od, "restoration_type")
                         ELSE od
              IN  Update(od1,
                         [restoration_type |-> "bridge",
                          tooth_positions |-> ArgText(tool_args, "tooth_positions"),
                          bridge_span |-> Get(result, "bridge_span", None),
                          position_type |-> Get(result, "position_type", None)])
         ELSE od
    ELSE IF name = "validate_material"
    THEN IF Get(result, "valid", FALSE)
         THEN LET new_restoration_type == ArgText(tool_args, "restoration_type")
                  new_material_category == Get(result, "material_category", None)
                  new_material_subtype == Get(result, "material_subtype", None)
                  od1 == IF changed(od, "restoration_type", new_restoration_type)
                         THEN reset_dependent_fields(od, "restoration_type")
                         ELSE od
                  od2 == IF changed(od1, "material_category", new_material_category)
                         THEN reset_dependent_fields(od1, "material_category")
                         ELSE od1
              IN  Update(od2,
                         [restoration_type |-> new_restoration_type,
                          material_category |-> new_material_category,
                          material_subtype |-> new_material_subtype])
         ELSE od
    ELSE IF name = "search_products"
    THEN LET fill(d, key) ==
                 IF Truthy(d, key) THEN d
                 ELSE Update(d, [k \in {key} |-> ArgText(tool_args, key)])
             od3 == fill(fill(fill(od, "restoration_type"), "material_category"),
                         "material_subtype")
         IN  IF /\ Get(result, "found", FALSE)
                /\ Get(result, "products", <<>>) # <<>>
                /\ exactly_one(result.products)
             THEN LET first_product == result.products[1]
                      od4 == IF Truthy(od3, "product_code") THEN od3
                             ELSE Update(od3, [product_code |->
                                        Get(first_product, "product_code", None)])
                  IN  IF Truthy(od4, "product_name") THEN od4
                      ELSE Update(od4, [product_name |->
                                        Get(first_product, "material_name", "N/A")])
             ELSE od3
    ELSE IF name = "store_patient_name"
    THEN IF Get(result, "success", FALSE) /\ result.patient_name # <<>>
         THEN Update(od, [patient_name |-> result.patient_name])
         ELSE od
    ELSE od

(***************************************************************************)
(* main.py: what the final reply of a turn reads from the user's message   *)
(***************************************************************************)
\* \w of one character: letters, digits, underscore and the ideographs
IsWordChar(c) ==
    \/ IsDigit(c)
    \/ c \in Range(LowerCase) \cup Range(UpperCase) \cup {"_"}
    \/ ~IsAscii(c) /\ c \notin TrailingPunctuation \cup {"U+FF1A"}

\* \b between s[p] and s[p + 1]
WordBoundary(s, p) ==
    LET word(i) == i \in 1..Len(s) /\ IsWordChar(s[i])
    IN  word(p) # word(p + 1)

Min(S) == CHOOSE x \in S : \A y \in S : x <= y

\* str.upper()
UpperChar(c) ==
    IF \E i \in 1..26 : LowerCase[i] = c
    THEN UpperCase[CHOOSE i \in 1..26 : LowerCase[i] = c]
    ELSE c

Upper(s) == [i \in 1..Len(s) |-> UpperChar(s[i])]

\* re.findall(r'\b([1-4][1-8])\b', user_msg): where the matches start
tooth_numbers_at(s) ==
    {i \in 1..(Len(s) - 1) :
        /\ s[i] \in {"1", "2", "3", "4"}
        /\ s[i + 1] \in {"1", "2", "3", "4", "5", "6", "7", "8"}
        /\ WordBoundary(s, i - 1)
        /\ WordBoundary(s, i + 1)}

\* re.findall(r'\b(\d{4})\b', user_msg): where the matches start
codes_at(s) ==
    {i \in 1..(Len(s) - 3) :
        /\ \A j \in i..(i + 3) : IsDigit(s[j])
        /\ WordBoundary(s, i - 1)
        /\ WordBoundary(s, i + 3)}

\* re.search(r'\b([A-D][1-4](?:\.\d)?)\b', user_msg, re.IGNORECASE):
\* the length of the match at i, 0 for none
shade_len_at(s, i) ==
    IF /\ i + 1 <= Len(s)
       /\ WordBoundary(s, i - 1)
       /\ UpperChar(s[i]) \in {"A", "B", "C", "D"}
       /\ s[i + 1] \in {"1", "2", "3", "4"}
    THEN IF /\ i + 3 <= Len(s)
            /\ s[i + 2] = "."
            /\ IsDigit(s[i + 3])
            /\ WordBoundary(s, i + 3)
         THEN 4
         ELSE IF WordBoundary(s, i + 1) THEN 2 ELSE 0
    ELSE 0

shades_at(s) == {i \in 1..Len(s) : shade_len_at(s, i) > 0}

extract_order_data_from_message(od, msg) ==
    LET is_crown == \/ IsSubstring(<<"c", "r", "o", "w", "n">>, Lower(msg))
                    \/ IsSubstring(<<"U+7259", "U+51A0">>, msg)
        od1 == IF is_crown /\ ~Truthy(od, "restoration_type")
               THEN Update(od, [restoration_type |-> "crown"])
               ELSE od
        numbers == tooth_numbers_at(msg)
        od2 == IF /\ Get(od1, "restoration_type", None) = "crown"
                  /\ numbers # {}
                  /\ ~Truthy(od1, "tooth_positions")
               THEN Update(od1, [tooth_positions |->
                        Str(SubSeq(msg, Min(numbers), Min(numbers) + 1))])
               ELSE od1
        codes == codes_at(msg)
        od3 == IF codes # {}
               THEN Update(od2, [product_code |->
                        Str(SubSeq(msg, Min(codes), Min(codes) + 3))])
               ELSE od2
        shades == shades_at(msg)
    IN  IF shades # {}
        THEN Update(od3, [shade |->
                Str(Upper(SubSeq(msg, Min(shades),
                                 Min(shades) + shade_len_at(msg, Min(shades)) - 1)))])
        ELSE od3

(***************************************************************************)
(* main.py: the confirmation branch of the chat handler                    *)
(***************************************************************************)
is_confirmation(msg) ==
    \/ IsSubstring(<<"U+78BA", "U+8A8D">>, msg)
    \/ IsSubstring(<<"c", "o", "n", "f", "i", "r", "m">>, Lower(msg))
    \/ IsSubstring(<<"y", "e", "s">>, Lower(msg))

\* the list without patient_name
required_fields_without_name ==
    <<"restoration_type", "tooth_positions", "material_category", "material_subtype">>

required_fields ==
    <<"restoration_type", "tooth_positions", "material_category", "material_subtype",
      "patient_name">>

\* all(field in order_data and order_data[field] for field in required_fields)
is_complete(od) == \A i \in DOMAIN required_fields : Truthy(od, required_fields[i])

\* [f for f in required_fields if f not in order_data or not order_data[f]]
missing_fields(od) ==
    LET is_missing(f) == ~Truthy(od, f)
    IN  SelectSeq(required_fields, is_missing)

(***************************************************************************)
(* A session: the steps of the chat handler on one session's order data.   *)
(* tool_name, arguments, tool_result, user_msg and reply hold what the     *)
(* step last taken read and returned, None where it has none.              *)
(***************************************************************************)
\* validate_bridge calls of a session
SessionBridgeArguments ==
    {[tooth_positions |-> <<"1", "4", ",", "1", "5", ",", "1", "6">>],
     [tooth_positions |-> <<"1", "1", ",", "1", "2">>],
     [tooth_positions |-> <<"1", "1", ",", "1", "3">>],
     [tooth_positions |-> <<"1", "9", ",", "2", "0">>],
     EmptyDict}

\* validate_material calls of a session
SessionMaterialArguments ==
    {[restoration_type |-> <<"c", "r", "o", "w", "n">>, material_category |-> <<"p", "f", "m">>,
      material_subtype |-> <<"t", "i", "t", "a", "n", "i", "u", "m">>],
     [restoration_type |-> <<"c", "r", "o", "w", "n">>, material_category |-> <<"p", "f", "m">>,
      material_subtype |-> <<"n", "o", "n", "-", "p", "r", "e", "c", "i", "o", "u", "s">>],
     [restoration_type |-> <<"c", "r", "o", "w", "n">>, material_category |-> <<"m", "e", "t", "a", "l", "-", "f", "r", "e", "e">>,
      material_subtype |-> <<"e", "m", "a", "x">>],
     [restoration_type |-> <<"b", "r", "i", "d", "g", "e">>, material_category |-> <<"m", "e", "t", "a", "l", "-", "f", "r", "e", "e">>,
      material_subtype |-> <<"f", "m", "z">>, bridge_span |-> 3],
     [restoration_type |-> <<"c", "r", "o", "w", "n">>, material_category |-> <<"m", "e", "t", "a", "l", "-", "f", "r", "e", "e">>,
      material_subtype |-> <<"z", "i", "n", "e", "e", "r">>],
     [restoration_type |-> <<"c", "r", "o", "w", "n">>, material_category |-> <<"p", "f", "m">>],
     [restoration_type |-> <<"v", "e", "n", "e", "e", "r">>, material_category |-> <<"m", "e", "t", "a", "l", "-", "f", "r", "e", "e">>,
      material_subtype |-> <<"e", "m", "a", "x">>]}

\* search_products calls of a session
SessionSearchArguments ==
    {[search_query |-> <<"p", "f", "m", " ", "c", "r", "o", "w", "n", " ", "t", "i", "t", "a", "n", "i", "u", "m">>,
      restoration_type |-> <<"c", "r", "o", "w", "n">>, material_category |-> <<"p", "f", "m">>,
      material_subtype |-> <<"t", "i", "t", "a", "n", "i", "u", "m">>],
     [search_query |-> <<"z", "i", "r", "c", "o", "n", "i", "a", " ", "b", "r", "i", "d", "g", "e">>,
      restoration_type |-> <<"b", "r", "i", "d", "g", "e">>, material_category |-> <<"m", "e", "t", "a", "l", "-", "f", "r", "e", "e">>,
      material_subtype |-> <<"f", "m", "z">>]}

\* what the product search answers: nothing, one candidate, two candidates
SearchOutcomes ==
    LET p1100 == [product_code |-> "1100", material_name |-> "Titanium PFM"]
        p1200 == [product_code |-> "1200", material_name |-> "Full Zirconia"]
    IN  {[found |-> FALSE, products |-> <<>>],
         [found |-> TRUE, products |-> <<p1100>>],
         [found |-> TRUE, products |-> <<p1200>>],
         [found |-> TRUE, products |-> <<p1100, p1200>>]}

\* store_patient_name calls of a session
SessionNameArguments ==
    {[patient_name |-> n] :
        n \in {<<"N", "P">>, <<"A", "2">>, <<"3", "6", "3", "0">>,
               <<"U+9673", "U+5927", "U+660E">>,
               <<"Z", "i", "r", "c", "o", "n", "i", "a">>, <<"A", "3", ".", "5">>,
               <<" ", "P", "a", "t", "i", "e", "n", "t", ":", " ", "J", "o", "h", "n", " ", "S", "m", "i", "t", "h", ".", " ">>,
               <<"n", "a", "m", "e", ":", " ", "g", "o", "l", "d">>}}

\* validate_tooth_positions calls of a session
SessionToothArguments ==
    {[tooth_positions |-> <<"1", "1">>], [tooth_positions |-> <<"1", "9", ",", "2", "0">>]}

\* the user's messages
UserMessages ==
    {<<"c", "r", "o", "w", "n", " ", "1", "1">>, <<"3", "6", "3", "0", " ", "a", "2">>, <<"n", "e", "w", " ", "o", "r", "d", "e", "r">>,
     <<"c", "o", "n", "f", "i", "r", "m">>}

\* the tools execute_tool runs itself
execute_tool(name, args) ==
    IF name = "validate_bridge" THEN validate_bridge_positions(args)
    ELSE IF name = "validate_material" THEN validate_material_compatibility(args)
    ELSE IF name = "store_patient_name" THEN store_patient_name(args.patient_name)
    ELSE IF name = "validate_tooth_positions" THEN validate_tooth_position(args.tooth_positions)
    ELSE [error |-> TRUE, tool |-> name]

\* what a step that is over leaves behind: nothing but order_data
NoStep ==
    /\ tool_name = None
    /\ arguments = EmptyDict
    /\ tool_result = None
    /\ user_msg = None
    /\ reply = None

\* what execute_tool returns on each call of a session
SessionOutcomes ==
    [name \in {"validate_bridge", "validate_material", "store_patient_name",
               "validate_tooth_positions"} |->
        LET calls == IF name = "validate_bridge" THEN SessionBridgeArguments
                     ELSE IF name = "validate_material" THEN SessionMaterialArguments
                     ELSE IF name = "store_patient_name" THEN SessionNameArguments
                     ELSE SessionToothArguments
        IN  [args \in calls |-> execute_tool(name, args)]]

\* the session is created with 'order_data': {}
InitSession ==
    /\ pc = "idle"
    /\ order_data = EmptyDict
    /\ order_before = EmptyDict
    /\ NoStep
    /\ NoOther

\* one tool call of the loop: the tool ran, its outcome is applied
ApplyOutcome(name, args, result) ==
    /\ pc = "idle"
    /\ pc' = "tool"
    /\ arguments' = args
    /\ tool_result' = result
    /\ order_before' = order_data
    /\ order_data' = extract_order_data(order_data, name, args, result)
    /\ user_msg' = None
    /\ reply' = None
    /\ UNCHANGED other_vars

CallValidateBridge ==
    \E args \in SessionBridgeArguments :
        /\ tool_name' = "validate_bridge"
        /\ ApplyOutcome("validate_bridge", args, SessionOutcomes["validate_bridge"][args])

CallValidateMaterial ==
    \E args \in SessionMaterialArguments :
        /\ tool_name' = "validate_material"
        /\ ApplyOutcome("validate_material", args, SessionOutcomes["validate_material"][args])

CallSearchProducts ==
    \E args \in SessionSearchArguments, result \in SearchOutcomes :
        /\ tool_name' = "search_products"
        /\ ApplyOutcome("search_products", args, result)

CallStorePatientName ==
    \E args \in SessionNameArguments :
        /\ tool_name' = "store_patient_name"
        /\ ApplyOutcome("store_patient_name", args,
                        SessionOutcomes["store_patient_name"][args])

CallValidateToothPositions ==
    \E args \in SessionToothArguments :
        /\ tool_name' = "validate_tooth_positions"
        /\ ApplyOutcome("validate_tooth_positions", args,
                        SessionOutcomes["validate_tooth_positions"][args])

\* the model answers without a tool call: the turn ends
FinalReply ==
    \E msg \in UserMessages :
        /\ pc = "idle"
        /\ ~is_confirmation(msg)
        /\ pc' = "reply"
        /\ user_msg' = msg
        /\ order_before' = order_data
        /\ order_data' = extract_order_data_from_message(order_data, msg)
        /\ reply' = [reply |-> <<"assistant">>, state |-> order_data']
        /\ tool_name' = None
        /\ arguments' = EmptyDict
        /\ tool_result' = None
        /\ UNCHANGED other_vars

\* the message asks for confirmation; created is whether create_order
\* returned an order
Confirmation ==
    \E msg \in UserMessages, created \in BOOLEAN :
        /\ pc = "idle"
        /\ is_confirmation(msg)
        /\ pc' = "confirmation"
        /\ user_msg' = msg
        /\ order_before' = order_data
        /\ IF is_complete(order_data)
           THEN IF created
                THEN /\ order_data' = EmptyDict
                     /\ reply' = [reply |-> <<"order_confirmed", order_data>>,
                                  state |-> [order_created |-> TRUE]]
                ELSE /\ order_data' = order_data
                     /\ reply' = [reply |-> <<"creation_failed">>, state |-> None]
           ELSE /\ order_data' = order_data
                /\ reply' = [reply |-> <<"incomplete", missing_fields(order_data)>>,
                             state |-> None]
        /\ tool_name' = None
        /\ arguments' = EmptyDict
        /\ tool_result' = None
        /\ UNCHANGED other_vars

\* DELETE /session/{session_id}; the next chat request starts the session anew
ClearSession ==
    /\ pc = "idle"
    /\ pc' = "cleared"
    /\ order_before' = order_data
    /\ order_data' = EmptyDict
    /\ user_msg' = None
    /\ reply' = None
    /\ tool_name' = None
    /\ arguments' = EmptyDict
    /\ tool_result' = None
    /\ UNCHANGED other_vars

\* the step is over (the loop goes on, or the handler has returned): what
\* it read and returned is gone, order_data stays
AwaitNext ==
    /\ pc # "idle"
    /\ pc' = "idle"
    /\ order_before' = order_data
    /\ tool_name' = None
    /\ arguments' = EmptyDict
    /\ tool_result' = None
    /\ user_msg' = None
    /\ reply' = None
    /\ UNCHANGED order_data
    /\ UNCHANGED other_vars

NextSession ==
    \/ CallValidateBridge
    \/ CallValidateMaterial
    \/ CallSearchProducts
    \/ CallStorePatientName
    \/ CallValidateToothPositions
    \/ FinalReply
    \/ Confirmation
    \/ ClearSession
    \/ AwaitNext

SpecSession == InitSession /\ [][NextSession]_vars

(***************************************************************************)
(* _reset_dependent_fields on its own: every order_data over the ten       *)
(* fields, every changed_field of the table and one that is not in it.     *)
(***************************************************************************)
OrderFields ==
    {"restoration_type", "tooth_positions", "bridge_span", "position_type",
     "material_category", "material_subtype", "product_code", "product_name",
     "shade", "patient_name"}

FilledOrder ==
    [restoration_type |-> "crown", tooth_positions |-> "11", bridge_span |-> 3,
     position_type |-> "anterior", material_category |-> "pfm",
     material_subtype |-> "titanium", product_code |-> "1100",
     product_name |-> "Titanium PFM", shade |-> "A2",
     patient_name |-> <<"U+9673", "U+5927", "U+660E">>]

InitReset ==
    /\ pc = "call"
    /\ tool_name = "_reset_dependent_fields"
    /\ arguments \in [changed_field : {"restoration_type", "material_category",
                                       "material_subtype", "shade"}]
    /\ tool_result = None
    /\ order_data \in {Restrict(FilledOrder, keys) : keys \in SUBSET OrderFields}
    /\ order_before = order_data
    /\ user_msg = None
    /\ reply = None
    /\ NoOther

ResetDependentFields ==
    /\ pc = "call"
    /\ tool_name = "_reset_dependent_fields"
    /\ order_before' = order_data
    /\ order_data' = reset_dependent_fields(order_data, arguments.changed_field)
    /\ pc' = "done"
    /\ UNCHANGED <<tool_name, arguments, tool_result, user_msg, reply>>
    /\ UNCHANGED other_vars

NextReset == ResetDependentFields

SpecReset == InitReset /\ [][NextReset]_vars

\* field k of order_data is as the step found it: absent, or the same value
Same(k) ==
    /\ (k \in DOMAIN order_data) = (k \in DOMAIN order_before)
    /\ k \in DOMAIN order_data => order_data[k] = order_before[k]

\* the dependency table as the specification gives it
DependencyTable ==
    [restoration_type |-> {"material_category", "material_subtype", "product_code",
                           "product_name", "bridge_span", "position_type"},
     material_category |-> {"material_subtype", "product_code", "product_name"},
     material_subtype |-> {"product_code", "product_name"}]

Applied(name) == pc = "tool" /\ tool_name = name

MaterialAndProductFields ==
    {"material_category", "material_subtype", "product_code", "product_name"}

(***************************************************************************)
(* C14: a successful validate_bridge outcome sets restoration_type to      *)
(* bridge and tooth_positions, bridge_span and position_type from the      *)
(* outcome; if the recorded restoration_type was non-empty and not bridge  *)
(* the material and product fields are removed, otherwise (bridge, or no   *)
(* type recorded) they are kept as they were.                              *)
(***************************************************************************)
C14_BridgeOutcomeResetsOnTypeChange ==
    (Applied("validate_bridge") /\ Get(tool_result, "valid", FALSE)) =>
        /\ order_data.restoration_type = "bridge"
        /\ order_data.tooth_positions = Str(arguments.tooth_positions)
        /\ order_data.bridge_span = tool_result.bridge_span
        /\ order_data.position_type = tool_result.position_type
        /\ IF /\ Truthy(order_before, "restoration_type")
              /\ order_before.restoration_type # "bridge"
           THEN MaterialAndProductFields \cap DOMAIN order_data = {}
           ELSE \A k \in MaterialAndProductFields : Same(k)

C14_Witness ==
    /\ Applied("validate_bridge")
    /\ tool_result.valid
    /\ "restoration_type" \in DOMAIN order_before
    /\ order_before.restoration_type = "crown"
    /\ MaterialAndProductFields \subseteq DOMAIN order_before
    /\ MaterialAndProductFields \cap DOMAIN order_data = {}
    /\ order_data.restoration_type = "bridge"
    /\ order_data.bridge_span = 3

\* the step found a value recorded for the field, and not this one
Differs(k, new_value) == Truthy(order_before, k) /\ order_before[k] # new_value

(***************************************************************************)
(* C15: after a successful validate_material outcome whose                 *)
(* material_category or whose material_subtype differs from the recorded   *)
(* value, product_code and product_name are absent from order_data.        *)
(***************************************************************************)
C15_ChangedMaterialClearsProduct ==
    (/\ Applied("validate_material")
     /\ Get(tool_result, "valid", FALSE)
     /\ \/ Differs("material_category", tool_result.material_category)
        \/ Differs("material_subtype", tool_result.material_subtype)) =>
        {"product_code", "product_name"} \cap DOMAIN order_data = {}

(***************************************************************************)
(* C16: a search_products outcome sets product_code and product_name only  *)
(* when it has exactly one candidate (then an empty slot takes the         *)
(* candidate's value); with none or several both are as they were.         *)
(* restoration_type, material_category and material_subtype take the       *)
(* tool argument where the slot is empty and are as they were otherwise.   *)
(***************************************************************************)
C16_SearchSelectsOnlyASingleCandidate ==
    Applied("search_products") =>
        /\ Len(tool_result.products) # 1 =>
                Same("product_code") /\ Same("product_name")
        /\ (tool_result.found /\ Len(tool_result.products) = 1) =>
                /\ IF Truthy(order_before, "product_code") THEN Same("product_code")
                   ELSE order_data.product_code = tool_result.products[1].product_code
                /\ IF Truthy(order_before, "product_name") THEN Same("product_name")
                   ELSE order_data.product_name = tool_result.products[1].material_name
        /\ \A k \in {"restoration_type", "material_category", "material_subtype"} :
                IF Truthy(order_before, k) THEN Same(k)
                ELSE order_data[k] = Str(arguments[k])

C16_Witness ==
    /\ Applied("search_products")
    /\ Len(tool_result.products) = 2
    /\ "product_code" \notin DOMAIN order_data
    /\ "restoration_type" \in DOMAIN order_before
    /\ order_before.restoration_type = "bridge"
    /\ Str(arguments.restoration_type) = "crown"
    /\ order_data.restoration_type = "bridge"
    /\ "material_subtype" \notin DOMAIN order_before
    /\ order_data.material_subtype = "titanium"

\* the name neither is a material abbreviation, nor has the form of a shade
\* code, nor is a 4-digit product code
NotMaterialShadeOrCode(name) ==
    LET compact == Remove(Lower(name), {" ", "-"})
    IN  /\ Str(compact) \notin material_abbrs
        /\ ~matches_shade_pattern(compact)
        /\ ~(Len(name) = 4 /\ \A i \in 1..4 : IsDigit(name[i]))

\* the names store_patient_name accepted on some call of a session
AcceptedNames ==
    {SessionOutcomes["store_patient_name"][args].patient_name :
        args \in {a \in SessionNameArguments :
                    SessionOutcomes["store_patient_name"][a].success}}

(***************************************************************************)
(* C17: in every state of a session patient_name, when present, is a name  *)
(* store_patient_name accepted, and is neither a material abbreviation     *)
(* (NP) nor a shade code (A2) nor a 4-digit product code (3630); these     *)
(* three are rejected and leave patient_name as it was, as every rejected  *)
(* name does, and the name U+9673 U+5927 U+660E is accepted and stored.    *)
(***************************************************************************)
C17_PatientNameIsAnAcceptedName ==
    /\ "patient_name" \in DOMAIN order_data =>
            /\ NotMaterialShadeOrCode(order_data.patient_name)
            /\ order_data.patient_name \in AcceptedNames
    /\ Applied("store_patient_name") =>
            /\ arguments.patient_name \in {<<"N", "P">>, <<"A", "2">>,
                                           <<"3", "6", "3", "0">>} =>
                    ~tool_result.success
            /\ ~tool_result.success => order_data = order_before
            /\ arguments.patient_name = <<"U+9673", "U+5927", "U+660E">> =>
                    /\ tool_result.success
                    /\ order_data.patient_name = arguments.patient_name

C17_Witness ==
    /\ Applied("store_patient_name")
    /\ arguments.patient_name = <<"N", "P">>
    /\ ~tool_result.success
    /\ "patient_name" \in DOMAIN order_before
    /\ order_data.patient_name = <<"U+9673", "U+5927", "U+660E">>

\* the five fields an order needs
NeededForAnOrder ==
    {"restoration_type", "tooth_positions", "material_category", "material_subtype",
     "patient_name"}

(***************************************************************************)
(* C18: a confirmation request reaches create_order only if the five       *)
(* needed fields are all present and truthy; if one is missing or falsy    *)
(* the reply is the incomplete-order reply naming exactly the missing      *)
(* fields, and order_data is unchanged.                                    *)
(***************************************************************************)
C18_ConfirmationNeedsTheFiveFields ==
    pc = "confirmation" =>
        LET missing == {f \in NeededForAnOrder : ~Truthy(order_before, f)}
        IN  /\ reply.reply[1] \in {"order_confirmed", "creation_failed"} => missing = {}
            /\ missing # {} =>
                    /\ reply.reply[1] = "incomplete"
                    /\ Range(reply.reply[2]) = missing
                    /\ Len(reply.reply[2]) = Cardinality(missing)
                    /\ order_data = order_before

C18_Witness ==
    /\ pc = "confirmation"
    /\ reply.reply[1] = "incomplete"
    /\ reply.reply[2] = <<"material_subtype", "patient_name">>
    /\ "material_subtype" \in DOMAIN order_before
    /\ order_before.material_subtype = None
    /\ order_data = order_before

(***************************************************************************)
(* C19: order_data is empty after a confirmation that created the order    *)
(* and after the user starts a new order; after a confirmation whose       *)
(* order creation failed it is as it was.                                  *)
(***************************************************************************)
C19_SlotsDiscardedOnConfirmationAndNewOrder ==
    /\ (pc = "confirmation" /\ reply.reply[1] = "order_confirmed") =>
            order_data = EmptyDict
    /\ (pc = "confirmation" /\ reply.reply[1] = "creation_failed") =>
            order_data = order_before
    /\ (pc = "reply" /\ user_msg = <<"n", "e", "w", " ", "o", "r", "d", "e", "r">>) =>
            order_data = EmptyDict

\* the outcome the step applied is a failure
FailedOutcome ==
    \/ /\ tool_name \in {"validate_bridge", "validate_material"}
       /\ ~Get(tool_result, "valid", FALSE)
    \/ /\ tool_name = "store_patient_name"
       /\ ~Get(tool_result, "success", FALSE)
    \/ /\ tool_name = "search_products"
       /\ (~Get(tool_result, "found", FALSE) \/ Get(tool_result, "products", <<>>) = <<>>)

(***************************************************************************)
(* C20: applying a failed outcome (validate_bridge or validate_material    *)
(* with valid = false, store_patient_name with success = false, a          *)
(* search_products that found nothing) leaves order_data unchanged.        *)
(***************************************************************************)
C20_FailedOutcomesLeaveSlotsUnchanged ==
    (pc = "tool" /\ FailedOutcome) => order_data = order_before

(***************************************************************************)
(* The tool loop of one turn: the model's message carries tool_calls, the  *)
(* loop executes them and applies each outcome to order_data.  Here        *)
(* order_before is order_data as the turn found it.                        *)
(***************************************************************************)
\* a turn carries up to MaxToolCalls tool calls
MaxToolCalls == 2

CrownMaterialCall ==
    [tool |-> "validate_material",
     arguments |-> [restoration_type |-> <<"c", "r", "o", "w", "n">>,
                    material_category |-> <<"p", "f", "m">>,
                    material_subtype |-> <<"t", "i", "t", "a", "n", "i", "u", "m">>]]

BridgeCall ==
    [tool |-> "validate_bridge",
     arguments |-> [tooth_positions |-> <<"1", "4", ",", "1", "5", ",", "1", "6">>]]

\* the tool calls a turn is made of: two that succeed, two that fail
TurnCalls ==
    {CrownMaterialCall, BridgeCall,
     [tool |-> "validate_bridge",
      arguments |-> [tooth_positions |-> <<"1", "1", ",", "1", "3">>]],
     [tool |-> "store_patient_name", arguments |-> [patient_name |-> <<"A", "2">>]]}

\* order_data as a turn finds it: empty, or a crown with material and product
TurnStartOrders ==
    {EmptyDict,
     [restoration_type |-> "crown", material_category |-> "pfm",
      material_subtype |-> "titanium", product_code |-> "1100",
      product_name |-> "Titanium PFM"]}

\* for tool_call in message.tool_calls, at the wrong end
next_tool_call_from_end(calls, log) == calls[Len(calls) - Len(log)]

\* for tool_call in message.tool_calls: the call after those already executed
next_tool_call(calls, log) == calls[Len(log) + 1]

InitTurn ==
    /\ pc = "tool_loop"
    /\ tool_calls \in UNION {[1..n -> TurnCalls] : n \in 0..MaxToolCalls}
    /\ tool_calls_log = <<>>
    /\ order_data \in TurnStartOrders
    /\ order_before = order_data
    /\ NoStep
    /\ normalization_cache = EmptyCache
    /\ response = None

\* one pass of the loop body: log the call, execute it, apply its outcome
ExecuteToolCall ==
    /\ pc = "tool_loop"
    /\ Len(tool_calls_log) < Len(tool_calls)
    /\ LET tool_call == next_tool_call(tool_calls, tool_calls_log)
           function_response == execute_tool(tool_call.tool, tool_call.arguments)
       IN  /\ tool_calls_log' = Append(tool_calls_log, tool_call)
           /\ tool_name' = tool_call.tool
           /\ arguments' = tool_call.arguments
           /\ tool_result' = function_response
           /\ order_data' = extract_order_data(order_data, tool_call.tool,
                                               tool_call.arguments, function_response)
    /\ UNCHANGED <<pc, order_before, user_msg, reply, normalization_cache, response,
                   tool_calls>>

\* the loop is through: continue with the next iteration of the handler
Continue ==
    /\ pc = "tool_loop"
    /\ Len(tool_calls_log) = Len(tool_calls)
    /\ pc' = "continue"
    /\ UNCHANGED <<tool_name, arguments, tool_result, order_data, order_before,
                   user_msg, reply, other_vars>>

NextTurn == ExecuteToolCall \/ Continue

SpecTurn == InitTurn /\ [][NextTurn]_vars

\* order data od after the outcomes of calls were applied one after another
RECURSIVE AppliedInOrder(_, _)
AppliedInOrder(od, calls) ==
    IF calls = <<>> THEN od
    ELSE AppliedInOrder(
            extract_order_data(od, Head(calls).tool, Head(calls).arguments,
                               execute_tool(Head(calls).tool, Head(calls).arguments)),
            Tail(calls))

(***************************************************************************)
(* C21: within a turn the calls executed so far are the first of the       *)
(* calls that arrived, in their order, and order_data is the turn's        *)
(* starting order data with their outcomes applied one after another; and  *)
(* the order matters: after the successful crown material validation       *)
(* followed by the successful bridge validation, order_data differs from   *)
(* what the two applied the other way round would have left.               *)
(***************************************************************************)
C21_OutcomesAppliedInArrivalOrder ==
    /\ Len(tool_calls_log) <= Len(tool_calls)
    /\ tool_calls_log = SubSeq(tool_calls, 1, Len(tool_calls_log))
    /\ order_data = AppliedInOrder(order_before, tool_calls_log)
    /\ (pc = "continue" /\ tool_calls = <<CrownMaterialCall, BridgeCall>>) =>
            order_data # AppliedInOrder(order_before, <<BridgeCall, CrownMaterialCall>>)

C21_Witness ==
    /\ pc = "continue"
    /\ tool_calls = <<CrownMaterialCall, BridgeCall>>
    /\ tool_calls_log = tool_calls
    /\ execute_tool(CrownMaterialCall.tool, CrownMaterialCall.arguments).valid
    /\ execute_tool(BridgeCall.tool, BridgeCall.arguments).valid
    /\ order_data.restoration_type = "bridge"
    /\ "material_category" \notin DOMAIN order_data
    /\ AppliedInOrder(order_before, <<BridgeCall, CrownMaterialCall>>).restoration_type = "crown"

(***************************************************************************)
(* material_normalizer.py: the external classifier and the cache.          *)
(***************************************************************************)
\* str.replace(old, ''): the occurrences of old removed, left to right
RECURSIVE RemoveAll(_, _)
RemoveAll(s, old) ==
    IF Len(s) < Len(old) THEN s
    ELSE IF SubSeq(s, 1, Len(old)) = old
    THEN RemoveAll(SubSeq(s, Len(old) + 1, Len(s)), old)
    ELSE <<Head(s)>> \o RemoveAll(Tail(s), old)

\* result.replace('```json', '').replace('```', '').strip(); the backtick,
\* which no string here can hold, is written "U+0060"
strip_fences(result) ==
    Strip(RemoveAll(RemoveAll(result, <<"U+0060", "U+0060", "U+0060", "j", "s", "o", "n">>), <<"U+0060", "U+0060", "U+0060">>))

\* what the external classifier does on a call: it raises, or it answers
\* with a message content
LlmResponses ==
    {[raised |-> TRUE],
     [content |-> <<"U+0060", "U+0060", "U+0060", "j", "s", "o", "n", " ", "{", "\"", "m", "a", "t", "c", "h", "e", "d", "\"", ":", " ", "\"", "l", "a", "v", "a", "-", "p", "l", "u", "s", "\"", "}", " ", "U+0060", "U+0060", "U+0060">>],
     [content |-> <<"{", "\"", "m", "a", "t", "c", "h", "e", "d", "\"", ":", " ", "n", "u", "l", "l", "}">>],
     [content |-> <<"n", "o", " ", "m", "a", "t", "c", "h">>],
     [content |-> <<"[", "\"", "e", "m", "a", "x", "\"", "]">>],
     [content |-> <<"{", "\"", "m", "a", "t", "e", "r", "i", "a", "l", "\"", ":", " ", "\"", "e", "m", "a", "x", "\"", "}">>]}

\* json.loads on the texts the classifier's answers strip to; any other of
\* these texts is no JSON
json_loads(text) ==
    IF text = <<"{", "\"", "m", "a", "t", "c", "h", "e", "d", "\"", ":", " ", "\"", "l", "a", "v", "a", "-", "p", "l", "u", "s", "\"", "}">>
    THEN [type |-> "object", value |-> [matched |-> <<"l", "a", "v", "a", "-", "p", "l", "u", "s">>]]
    ELSE IF text = <<"{", "\"", "m", "a", "t", "c", "h", "e", "d", "\"", ":", " ", "n", "u", "l", "l", "}">>
    THEN [type |-> "object", value |-> [matched |-> <<>>]]
    ELSE IF text = <<"{", "\"", "m", "a", "t", "e", "r", "i", "a", "l", "\"", ":", " ", "\"", "e", "m", "a", "x", "\"", "}">>
    THEN [type |-> "object", value |-> [material |-> <<"e", "m", "a", "x">>]]
    ELSE IF text = <<"[", "\"", "e", "m", "a", "x", "\"", "]">>
    THEN [type |-> "array", value |-> <<<<"e", "m", "a", "x">>>>]
    ELSE [type |-> "JSONDecodeError"]

\* parsed.get('matched'), a list taken for its first element
matched_of_first_element(parsed) ==
    IF parsed.type = "array" THEN parsed.value[1]
    ELSE IF parsed.type # "object" THEN <<>>
    ELSE Get(parsed.value, "matched", <<>>)

\* parsed.get('matched') inside the try: <<>> (None) when json.loads raised,
\* when parsed is no dict and so has no get, and when the field is absent
matched_of(parsed) ==
    IF parsed.type # "object" THEN <<>>
    ELSE Get(parsed.value, "matched", <<>>)

\* _normalize_llm, given what the external classifier does when called
normalize_llm(material_category, llm_response) ==
    IF materials_of(material_category) = <<>> THEN <<>>
    ELSE IF "raised" \in DOMAIN llm_response THEN <<>>
    ELSE matched_of(json_loads(strip_fences(llm_response.content)))

\* what _normalize_llm returns on each category and response of these calls
LlmMatched ==
    [category \in {input[2] : input \in NormalizerInputs} |->
        [llm_response \in LlmResponses |-> normalize_llm(category, llm_response)]]

InitNormalizer ==
    /\ pc = "idle"
    /\ normalization_cache = EmptyCache
    /\ response = None
    /\ NoStep
    /\ order_data = EmptyDict
    /\ order_before = EmptyDict
    /\ tool_calls = <<>>
    /\ tool_calls_log = <<>>

\* normalize_material has returned out; llm_response is what the external
\* classifier did, None when it was not called
Returned(input, use_llm, out, llm_response) ==
    /\ tool_name' = "normalize_material"
    /\ arguments' = [material_input |-> input[1], material_category |-> input[2],
                     use_llm |-> use_llm]
    /\ tool_result' = [result |-> out.result, stages |-> out.stages,
                       llm_called |-> out.llm_called]
    /\ response' = llm_response
    /\ normalization_cache' = out.cache
    /\ pc' = "done"
    /\ UNCHANGED <<order_data, order_before, user_msg, reply, tool_calls, tool_calls_log>>

\* one call of normalize_material, from its first line to its return; the
\* external classifier does something only when the call reaches it
NormalizeMaterial ==
    \E input \in NormalizerInputs, use_llm \in BOOLEAN :
        LET given(llm_matched) ==
                normalize_given(input[1], input[2], use_llm, normalization_cache,
                                normalize_simple(input[1]), FuzzyFindings[input],
                                llm_matched)
        IN  IF given(<<>>).llm_called
            THEN \E llm_response \in LlmResponses :
                    Returned(input, use_llm,
                             given(LlmMatched[input[2]][llm_response]), llm_response)
            ELSE Returned(input, use_llm, given(<<>>), None)

\* clear_cache()
ClearCache ==
    /\ tool_name' = "clear_cache"
    /\ arguments' = EmptyDict
    /\ tool_result' = None
    /\ response' = None
    /\ normalization_cache' = EmptyCache
    /\ pc' = "done"
    /\ UNCHANGED <<order_data, order_before, user_msg, reply, tool_calls, tool_calls_log>>

NextNormalizer == NormalizeMaterial \/ ClearCache

SpecNormalizer == InitNormalizer /\ [][NextNormalizer]_vars

\* normalize_material has returned from a call on a non-empty input
Normalized ==
    /\ pc = "done"
    /\ tool_name = "normalize_material"
    /\ arguments.material_input # <<>>

\* the category's vocabulary, empty for an unknown category
Vocabulary(category) == Range(materials_of(category))

(***************************************************************************)
(* C22: a call that is not answered from the cache runs its stages in the  *)
(* order alias, fuzzy, external classifier and returns what the first      *)
(* matching stage found: the fuzzy stage runs only when the alias stage    *)
(* found nothing, the external classifier is called only when both found   *)
(* nothing and use_llm is true, and when nothing matches the result is     *)
(* the lowercased input, whether it is in the vocabulary or not.           *)
(***************************************************************************)
C22_StagesInOrderFirstMatchWins ==
    (Normalized /\ tool_result.stages # <<>>) =>
        LET x == arguments.material_input
            c == arguments.material_category
            alias == normalize_simple(x)
            fuzzy == normalize_fuzzy(x, c)
            stages == tool_result.stages
        IN  /\ FuzzyFindings[<<x, c>>] = fuzzy
            /\ stages = SubSeq(<<"simple", "fuzzy", "llm">>, 1, Len(stages))
            /\ ("fuzzy" \in Range(stages)) = (alias = <<>>)
            /\ ("llm" \in Range(stages)) =
                    (alias = <<>> /\ fuzzy = <<>> /\ arguments.use_llm)
            /\ tool_result.llm_called =>
                    (alias = <<>> /\ fuzzy = <<>> /\ arguments.use_llm)
            /\ tool_result.result =
                    IF alias # <<>> THEN alias
                    ELSE IF fuzzy # <<>> THEN fuzzy
                    ELSE IF tool_result.llm_called /\ normalize_llm(c, response) # <<>>
                    THEN normalize_llm(c, response)
                    ELSE Lower(x)

C22_Witness ==
    /\ Normalized
    /\ tool_result.stages = <<"simple", "fuzzy", "llm">>
    /\ tool_result.llm_called
    /\ "raised" \in DOMAIN response
    /\ arguments.material_input = <<"Z", "i", "r", "c", "o", "n", "i", "a">>
    /\ tool_result.result = <<"z", "i", "r", "c", "o", "n", "i", "a">>
    /\ tool_result.result \notin Vocabulary(arguments.material_category)

(***************************************************************************)
(* C23: a call of normalize_material that follows a call with the same     *)
(* input and category, no clear_cache in between, returns the same value,  *)
(* runs no stage, does not call the external classifier and leaves the     *)
(* cache as it is, also when the first call ended in the raw-input         *)
(* fallback.                                                               *)
(***************************************************************************)
C23_SecondCallAnsweredFromCache ==
    [][(/\ pc = "done"
        /\ tool_name = "normalize_material"
        /\ tool_name' = "normalize_material"
        /\ arguments'.material_input = arguments.material_input
        /\ arguments'.material_category = arguments.material_category) =>
            /\ tool_result'.result = tool_result.result
            /\ tool_result'.stages = <<>>
            /\ ~tool_result'.llm_called
            /\ response' = None
            /\ normalization_cache' = normalization_cache]_vars

C23_Witness ==
    /\ Normalized
    /\ arguments.material_input = <<"z", "i", "r", "c", "o", "n", "i", "a">>
    /\ arguments.material_category = "metal-free"
    /\ arguments.use_llm
    /\ tool_result.stages = <<>>
    /\ ~tool_result.llm_called
    /\ tool_result.result = <<"z", "i", "r", "c", "o", "n", "i", "a">>
    /\ normalization_cache["metal-free:zirconia"] = <<"z", "i", "r", "c", "o", "n", "i", "a">>

(***************************************************************************)
(* C24: whatever the cache holds after earlier normalize_material and      *)
(* clear_cache calls, normalize_material on a canonical subtype of a       *)
(* category's vocabulary returns that subtype and does not call the        *)
(* external classifier, with use_llm true or false and whatever the        *)
(* classifier would have answered.                                         *)
(***************************************************************************)
C24_CanonicalSubtypesNormalizeToThemselves ==
    \A category \in DOMAIN STANDARD_MATERIALS :
        \A s \in Vocabulary(category), use_llm \in BOOLEAN :
            LET out == normalize_material(s, category, use_llm, normalization_cache,
                                          <<"z", "i", "r", "c", "o", "n", "i", "a">>)
            IN  /\ out.result = s
                /\ ~out.llm_called

C24_Witness ==
    /\ Normalized
    /\ arguments.material_input = <<"l", "a", "v", "a", "-", "p", "l", "u", "s">>
    /\ arguments.material_input \in Vocabulary(arguments.material_category)
    /\ tool_result.result = arguments.material_input
    /\ ~tool_result.llm_called
    /\ "metal-free:zirconia" \in DOMAIN normalization_cache
    /\ normalization_cache["metal-free:zirconia"] = <<"l", "a", "v", "a", "-", "p", "l", "u", "s">>

\* the external classifier raised, or answered what is, fences stripped, no
\* JSON object with a matched name
FailedResponses ==
    {[raised |-> TRUE],
     [content |-> <<"{", "\"", "m", "a", "t", "c", "h", "e", "d", "\"", ":", " ", "n", "u", "l", "l", "}">>],
     [content |-> <<"n", "o", " ", "m", "a", "t", "c", "h">>],
     [content |-> <<"[", "\"", "e", "m", "a", "x", "\"", "]">>],
     [content |-> <<"{", "\"", "m", "a", "t", "e", "r", "i", "a", "l", "\"", ":", " ", "\"", "e", "m", "a", "x", "\"", "}">>]}

(***************************************************************************)
(* C25: when the external classifier was called and it raised, or its      *)
(* answer is, code fences stripped, not a JSON object with a matched       *)
(* name, normalize_material returns (it raises nothing) and what it        *)
(* returns and caches is the lowercased input; a fenced JSON object with   *)
(* a matched name is no failure, its name is returned.                     *)
(***************************************************************************)
C25_ClassifierFailureGivesRawInput ==
    (Normalized /\ tool_result.llm_called) =>
        LET raw == Lower(arguments.material_input)
            key == arguments.material_category \o ":" \o Str(raw)
        IN  /\ response \in FailedResponses =>
                /\ tool_result.result = raw
                /\ normalization_cache[key] = raw
            /\ response \notin FailedResponses =>
                /\ tool_result.result = <<"l", "a", "v", "a", "-", "p", "l", "u", "s">>
                /\ normalization_cache[key] = <<"l", "a", "v", "a", "-", "p", "l", "u", "s">>

C25_Witness ==
    /\ Normalized
    /\ tool_result.llm_called
    /\ response = [content |-> <<"[", "\"", "e", "m", "a", "x", "\"", "]">>]
    /\ arguments.material_input = <<"Z", "i", "r", "c", "o", "n", "i", "a">>
    /\ tool_result.result = <<"z", "i", "r", "c", "o", "n", "i", "a">>

(***************************************************************************)
(* C30: the cache is keyed by category and lowercased input alone, and an  *)
(* entry stays as it is until clear_cache: a call whose category and       *)
(* lowercased input have an entry, the raw-input fallback of an earlier    *)
(* call included, returns that entry without running a stage or calling    *)
(* the external classifier, also with use_llm true, and no call other      *)
(* than clear_cache removes or replaces an entry.                          *)
(***************************************************************************)
C30_CachedEntryAnswersUntilCleared ==
    [][/\ tool_name' # "clear_cache" =>
            \A k \in DOMAIN normalization_cache :
                /\ k \in DOMAIN normalization_cache'
                /\ normalization_cache'[k] = normalization_cache[k]
       /\ (tool_name' = "normalize_material" /\ arguments'.material_input # <<>>) =>
            LET key == arguments'.material_category \o ":"
                            \o Str(Lower(arguments'.material_input))
            IN  key \in DOMAIN normalization_cache =>
                    /\ tool_result'.result = normalization_cache[key]
                    /\ tool_result'.stages = <<>>
                    /\ ~tool_result'.llm_called
                    /\ response' = None]_vars

C30_Witness ==
    /\ Normalized
    /\ arguments.material_input = <<"Z", "i", "r", "c", "o", "n", "i", "a">>
    /\ arguments.material_category = "metal-free"
    /\ arguments.use_llm
    /\ tool_result.result = <<"z", "i", "r", "c", "o", "n", "i", "a">>
    /\ tool_result.stages = <<>>
    /\ ~tool_result.llm_called
    /\ response = None

(***************************************************************************)
(* C26: every subtype the rule table names as allowed or forbidden for     *)
(* the (restoration type, category) pair of a call is a member of that     *)
(* category's vocabulary in STANDARD_MATERIALS, the names the normalizer   *)
(* produces.                                                               *)
(***************************************************************************)
C26_RuleSubtypesAreCanonical ==
    (MaterialDone /\ HasRule) =>
        LET rule == compatibility_rules[ArgRestorationType][ArgCategory]
            named == Range(rule.allowed_subtypes)
                        \cup Range(Get(rule, "forbidden_subtypes", <<>>))
        IN  named \subseteq {Str(s) : s \in Vocabulary(ArgCategory)}

(***************************************************************************)
(* C27: the tooth positions of a successful bridge validation, which the   *)
(* outcome records in order_data, are positions validate_tooth_positions   *)
(* accepts: every one of them is a valid FDI tooth.                        *)
(***************************************************************************)
C27_BridgeTeethAreValidTeeth ==
    (Applied("validate_bridge") /\ Get(tool_result, "valid", FALSE)) =>
        /\ order_data.tooth_positions = Str(arguments.tooth_positions)
        /\ execute_tool("validate_tooth_positions", arguments).valid

\* order_data holds a non-empty value for the field
IsSet(k) ==
    IF k = "bridge_span" THEN k \in DOMAIN order_data ELSE Truthy(order_data, k)

(***************************************************************************)
(* C28: in every order_data a session reaches, a product code or name is   *)
(* set only with a material subtype, a subtype only with a category, and   *)
(* category, bridge span and position type only with a restoration type,   *)
(* the last two only when that type is bridge.                             *)
(***************************************************************************)
C28_DependencyHierarchyRespected ==
    /\ (IsSet("product_code") \/ IsSet("product_name")) => IsSet("material_subtype")
    /\ IsSet("material_subtype") => IsSet("material_category")
    /\ (IsSet("material_category") \/ IsSet("bridge_span") \/ IsSet("position_type")) =>
            IsSet("restoration_type")
    /\ (IsSet("bridge_span") \/ IsSet("position_type")) =>
            order_data.restoration_type = "bridge"

(***************************************************************************)
(* C29: applying a validate_tooth_positions outcome, successful or not,    *)
(* leaves order_data as it was; tooth_positions is written only by a       *)
(* successful bridge validation or by message extraction on a crown        *)
(* order; so a tooth or material validation outcome never completes a      *)
(* veneer, inlay or onlay order that had no tooth positions.               *)
(***************************************************************************)
C29_ToothValidationLeavesSlotsAlone ==
    /\ Applied("validate_tooth_positions") => order_data = order_before
    /\ ("tooth_positions" \in DOMAIN order_data /\ ~Same("tooth_positions")) =>
            \/ Applied("validate_bridge") /\ Get(tool_result, "valid", FALSE)
            \/ pc = "reply" /\ Get(order_data, "restoration_type", None) = "crown"
    /\ (/\ Applied("validate_tooth_positions") \/ Applied("validate_material")
        /\ Get(order_data, "restoration_type", None) \in {"veneer", "inlay", "onlay"}
        /\ ~Truthy(order_before, "tooth_positions")) =>
            ~is_complete(order_data)

C29_Witness ==
    /\ Applied("validate_tooth_positions")
    /\ tool_result.valid
    /\ Get(order_data, "restoration_type", None) = "veneer"
    /\ missing_fields(order_data) = <<"tooth_positions">>

====
